---- MODULE Spec2Model ----
(***************************************************************************)
(* Streaming pipeline of the RDP WebSocket bridge (backend/rdp_bridge.py,  *)
(* backend/server.py, backend/wire_format.py).                             *)
(*                                                                         *)
(* One WebSocket connection is modelled: the handle_client coroutine, the  *)
(* RDPBridge objects it creates, each bridge's frame loop and audio loop   *)
(* (asyncio tasks), the native event queue and Opus buffer of each Session *)
(* Handle, and the peer.                                                   *)
(* asyncio tasks are cooperative: the variable cpu names the task that is  *)
(* running between two of its suspension points; native threads and the    *)
(* peer are not bound by it.                                               *)
(***************************************************************************)
EXTENDS Integers, Sequences, FiniteSets, TLC

(***************************************************************************)
(* Bounds of the model.                                                    *)
(***************************************************************************)
MaxEvents == 1
MaxQueue == 2
MaxAudio == 1
MaxInbound == 2
MaxValidations == 1
\* Audio loop: empty polls in a row in a session whose audio calls fail
MaxIdlePolls == 2
\* Audio loop: iterations in a row that end in an error
MaxAudioErrors == 11
\* Audio loop: empty polls in a row in a session whose audio goes silent
MaxEmptyPolls == 501
\* Opus frames the engine buffers in a session whose audio goes silent
MaxOpusFrames == 2
\* CIDR membership: the largest prefix length written after the slash
MaxPrefix == 33
\* Session registry: the largest number written in RDP_MAX_SESSIONS
MaxSetting == 1002
\* Policy objects: attempts to change the source dict and the returned dict
MaxChanges == 2
\* Opus frames the engine buffers in a session with bursts of audio
MaxBurstFrames == 12
MaxInputs == 1
MaxResizes == 2

\* RDPBridge objects that one connection can create (first and second
\* 'connect' message).
Bridges == {1, 2}

(***************************************************************************)
(* Program constants.                                                      *)
(***************************************************************************)
RDP_GFX_EVENT_NONE == 0
RDP_GFX_EVENT_CREATE_SURFACE == 1
RDP_GFX_EVENT_DELETE_SURFACE == 2
RDP_GFX_EVENT_MAP_SURFACE == 3
RDP_GFX_EVENT_START_FRAME == 4
RDP_GFX_EVENT_END_FRAME == 5
RDP_GFX_EVENT_SOLID_FILL == 6
RDP_GFX_EVENT_SURFACE_TO_SURFACE == 7
RDP_GFX_EVENT_CACHE_TO_SURFACE == 8
RDP_GFX_EVENT_SURFACE_TO_CACHE == 9
RDP_GFX_EVENT_WEBP_TILE == 10
RDP_GFX_EVENT_VIDEO_FRAME == 11
RDP_GFX_EVENT_EVICT_CACHE == 12
RDP_GFX_EVENT_RESET_GRAPHICS == 13
RDP_GFX_EVENT_CAPS_CONFIRM == 14
RDP_GFX_EVENT_INIT_SETTINGS == 15

RDP_GFX_CODEC_CLEARCODEC == 3
RDP_GFX_CODEC_AVC420 == 9
RDP_GFX_CODEC_AVC444 == 11

\* websocket.close(1000, disconnect_reason[:120])
CloseReasonMax == 120
\* max_frames_per_batch of the audio loop
max_frames_per_batch == 10
\* _stream_audio: max_empty_polls_before_warning and max_errors_before_reset
max_empty_polls_before_warning == 500
max_errors_before_reset == 10
\* NativeLibrary._init_session_registry: default_max, min_max and max_max
default_max == 100
min_max == 2
max_max == 1000

\* handle_client: the port of a 'connect' request that names none.
DefaultPort == 3389
DefaultWidth == 1280
DefaultHeight == 720

(***************************************************************************)
(* struct.pack field formats: a value outside the range raises             *)
(* struct.error.  Values are kept below 2^31, so an 'I' field only has to  *)
(* be non-negative.                                                        *)
(***************************************************************************)
FitsU8(v) == v >= 0 /\ v <= 255
FitsU16(v) == v >= 0 /\ v <= 65535
FitsI16(v) == v >= -32768 /\ v <= 32767
FitsU32(v) == v >= 0

AllTrue(S) == \A x \in S : x

(***************************************************************************)
(* Wire messages: the magic, the header fields in wire order, and the      *)
(* payload as the (pointer, size) of each buffer that was copied into it.  *)
(***************************************************************************)
Msg(magic, fields, payload) == [magic |-> magic, f |-> fields, data |-> payload]

\* A builder's outcome: a message, or struct.error.
Packed(ok, magic, fields, payload) ==
    IF ok THEN [res |-> "msg", msg |-> Msg(magic, fields, payload)]
    ELSE [res |-> "raise", msg |-> Msg("", <<>>, <<>>)]

\* None taken for a failure of the builder.
NoMessage_Raises == [res |-> "raise", msg |-> Msg("", <<>>, <<>>)]

NoMessage == [res |-> "none", msg |-> Msg("", <<>>, <<>>)]

build_create_surface(surface_id, width, height, pixel_format) ==
    Packed(AllTrue({FitsU16(surface_id), FitsU16(width), FitsU16(height), FitsU16(pixel_format)}),
           "SURF", <<surface_id, width, height, pixel_format>>, <<>>)

build_delete_surface(surface_id) ==
    Packed(FitsU16(surface_id), "DELS", <<surface_id>>, <<>>)

build_map_surface_to_output(surface_id, output_x, output_y) ==
    Packed(AllTrue({FitsU16(surface_id), FitsU16(output_x), FitsU16(output_y)}),
           "MAPS", <<surface_id, output_x, output_y>>, <<>>)

build_start_frame(frame_id) ==
    Packed(FitsU32(frame_id), "STFR", <<frame_id>>, <<>>)

build_end_frame(frame_id) ==
    Packed(FitsU32(frame_id), "ENFR", <<frame_id>>, <<>>)

build_solid_fill(frame_id, surface_id, x, y, w, h, color) ==
    Packed(AllTrue({FitsU32(frame_id), FitsU16(surface_id), FitsI16(x), FitsI16(y),
                    FitsU16(w), FitsU16(h), FitsU32(color)}),
           "SFIL", <<frame_id, surface_id, x, y, w, h, color>>, <<>>)

build_surface_to_surface(frame_id, src_surface_id, dst_surface_id, src_x, src_y, src_w, src_h, dst_x, dst_y) ==
    Packed(AllTrue({FitsU32(frame_id), FitsU16(src_surface_id), FitsU16(dst_surface_id),
                    FitsI16(src_x), FitsI16(src_y), FitsU16(src_w), FitsU16(src_h),
                    FitsI16(dst_x), FitsI16(dst_y)}),
           "S2SF", <<frame_id, src_surface_id, dst_surface_id,
                     src_x, src_y, src_w, src_h, dst_x, dst_y>>, <<>>)

build_surface_to_cache(frame_id, surface_id, cache_slot, x, y, w, h) ==
    Packed(AllTrue({FitsU32(frame_id), FitsU16(surface_id), FitsU16(cache_slot),
                    FitsI16(x), FitsI16(y), FitsU16(w), FitsU16(h)}),
           "S2CH", <<frame_id, surface_id, cache_slot, x, y, w, h>>, <<>>)

build_cache_to_surface(frame_id, surface_id, cache_slot, dst_x, dst_y) ==
    Packed(AllTrue({FitsU32(frame_id), FitsU16(surface_id), FitsU16(cache_slot),
                    FitsI16(dst_x), FitsI16(dst_y)}),
           "C2SF", <<frame_id, surface_id, cache_slot, dst_x, dst_y>>, <<>>)

build_evict_cache(frame_id, cache_slot) ==
    Packed(AllTrue({FitsU32(frame_id), FitsU16(cache_slot)}),
           "EVCT", <<frame_id, cache_slot>>, <<>>)

build_reset_graphics(width, height) ==
    Packed(AllTrue({FitsU16(width), FitsU16(height)}),
           "RSGR", <<width, height>>, <<>>)

build_caps_confirm(version, flags) ==
    Packed(AllTrue({FitsU32(version), FitsU32(flags)}),
           "CAPS", <<version, flags>>, <<>>)

\* The 17 named settings are bits 0..16 of flagsLow; flagsHigh is written 0.
build_init_settings(color_depth, flags_low) ==
    Packed(FitsU32(color_depth), "INIT", <<color_depth, flags_low % 131072, 0>>, <<>>)

build_clearcodec_tile(frame_id, surface_id, x, y, w, h, data) ==
    Packed(AllTrue({FitsU32(frame_id), FitsU16(surface_id), FitsU16(x), FitsU16(y),
                    FitsU16(w), FitsU16(h)}),
           "CLRC", <<frame_id, surface_id, x, y, w, h, data[2]>>, <<data>>)

build_webp_tile(frame_id, surface_id, x, y, w, h, data) ==
    Packed(AllTrue({FitsU32(frame_id), FitsU16(surface_id), FitsU16(x), FitsU16(y),
                    FitsU16(w), FitsU16(h)}),
           "WEBP", <<frame_id, surface_id, x, y, w, h, data[2]>>, <<data>>)

(***************************************************************************)
(* Inbound messages (browser -> server).  A buffer is a sequence of bytes. *)
(* An unsigned 32-bit value is kept as its two 16-bit halves, lo and hi.   *)
(***************************************************************************)
\* class Magic: the 4-byte ASCII headers.
Magic ==
    [ SURF |-> <<83, 85, 82, 70>>, DELS |-> <<68, 69, 76, 83>>, MAPS |-> <<77, 65, 80, 83>>,
      STFR |-> <<83, 84, 70, 82>>, ENFR |-> <<69, 78, 70, 82>>,
      PROG |-> <<80, 82, 79, 71>>, WEBP |-> <<87, 69, 66, 80>>, TILE |-> <<84, 73, 76, 69>>,
      CLRC |-> <<67, 76, 82, 67>>,
      SFIL |-> <<83, 70, 73, 76>>, S2SF |-> <<83, 50, 83, 70>>, C2SF |-> <<67, 50, 83, 70>>,
      S2CH |-> <<83, 50, 67, 72>>, EVCT |-> <<69, 86, 67, 84>>, RSGR |-> <<82, 83, 71, 82>>,
      CAPS |-> <<67, 65, 80, 83>>,
      H264 |-> <<72, 50, 54, 52>>,
      FACK |-> <<70, 65, 67, 75>>,
      OPUS |-> <<79, 80, 85, 83>>, AUDI |-> <<65, 85, 68, 73>>,
      INIT |-> <<73, 78, 73, 84>> ]

\* data[i:j] of Python: the bytes at 0-based positions i .. j-1 that exist.
Slice(data, i, j) ==
    SubSeq(data, i + 1, IF j < Len(data) THEN j ELSE Len(data))

\* get_message_type: the dictionary from magic to type name.
type_map ==
    { <<Magic.SURF, "createSurface">>, <<Magic.DELS, "deleteSurface">>,
      <<Magic.STFR, "startFrame">>, <<Magic.ENFR, "endFrame">>,
      <<Magic.PROG, "progressiveTile">>, <<Magic.WEBP, "webpTile">>,
      <<Magic.TILE, "rawTile">>, <<Magic.SFIL, "solidFill">>,
      <<Magic.S2SF, "surfaceToSurface">>, <<Magic.C2SF, "cacheToSurface">>,
      <<Magic.H264, "h264Frame">>, <<Magic.FACK, "frameAck">>,
      <<Magic.OPUS, "opusAudio">>, <<Magic.AUDI, "rawAudio">> }

\* The type name of a buffer, or "None".
get_message_type(data) ==
    IF Len(data) < 4 THEN "None"
    ELSE LET hits == {e \in type_map : e[1] = Slice(data, 0, 4)}
         IN  IF hits = {} THEN "None" ELSE (CHOOSE e \in hits : TRUE)[2]

\* The field read most significant byte first ('>I').
unpack_u32_BigEndian(bytes, at) ==
    [lo |-> bytes[at + 3] + 256 * bytes[at + 2], hi |-> bytes[at + 1] + 256 * bytes[at]]

\* One '<I' field of struct.unpack, read from the four bytes at 1-based
\* position at.
unpack_u32(bytes, at) ==
    [lo |-> bytes[at] + 256 * bytes[at + 1], hi |-> bytes[at + 2] + 256 * bytes[at + 3]]

\* A parser's outcome: the parsed fields ("ok"), None ("none"), or an
\* exception ("raise").
Zero32 == [lo |-> 0, hi |-> 0]
ParseResult(res, frame_id, total, depth) ==
    [res |-> res, frame_id |-> frame_id, total_frames_decoded |-> total, queue_depth |-> depth]
ParseNone == ParseResult("none", Zero32, Zero32, Zero32)
ParseRaise == ParseResult("raise", Zero32, Zero32, Zero32)

\* struct.unpack('<III', body): raises unless body has exactly 12 bytes.
unpack_III(body) ==
    IF Len(body) # 12 THEN ParseRaise
    ELSE ParseResult("ok", unpack_u32(body, 1), unpack_u32(body, 5), unpack_u32(body, 9))

\* The parser without the length check.
parse_frame_ack_NoLengthCheck(data) ==
    IF Slice(data, 0, 4) # Magic.FACK THEN ParseNone
    ELSE unpack_III(Slice(data, 4, 16))

parse_frame_ack(data) ==
    IF Len(data) < 16 THEN ParseNone
    ELSE IF Slice(data, 0, 4) # Magic.FACK THEN ParseNone
    ELSE unpack_III(Slice(data, 4, 16))

(***************************************************************************)
(* The bytes of a wire message.  struct.pack('<...') writes each value     *)
(* low byte first: B one unsigned byte, H two bytes unsigned, h two bytes  *)
(* two's complement, I four bytes unsigned (kept as 16-bit halves).        *)
(***************************************************************************)
RECURSIVE Pow2(_)
Pow2(n) == IF n = 0 THEN 1 ELSE 2 * Pow2(n - 1)

U32(lo, hi) == [lo |-> lo, hi |-> hi]

struct_fits(code, v) ==
    CASE code = "B" -> FitsU8(v)
      [] code = "H" -> FitsU16(v)
      [] code = "h" -> FitsI16(v)
      [] OTHER -> FitsU16(v.lo) /\ FitsU16(v.hi)

pack_u16(v) == <<v % 256, v \div 256>>

pack_i16_Magnitude(v) == pack_u16(IF v < 0 THEN 0 - v ELSE v)
pack_i16(v) == pack_u16(IF v < 0 THEN v + 65536 ELSE v)

pack_value(code, v) ==
    CASE code = "B" -> <<v>>
      [] code = "H" -> pack_u16(v)
      [] code = "h" -> pack_i16(v)
      [] OTHER -> pack_u16(v.lo) \o pack_u16(v.hi)

RECURSIVE struct_pack(_, _)
struct_pack(format, values) ==
    IF format = <<>> THEN <<>>
    ELSE pack_value(Head(format), Head(values)) \o struct_pack(Tail(format), Tail(values))

\* The format string of each builder of wire_format.py, without '<4s'.
struct_format ==
    [ SURF |-> <<"H", "H", "H", "H">>,
      DELS |-> <<"H">>,
      MAPS |-> <<"H", "H", "H">>,
      STFR |-> <<"I">>,
      ENFR |-> <<"I">>,
      SFIL |-> <<"I", "H", "h", "h", "H", "H", "I">>,
      S2SF |-> <<"I", "H", "H", "h", "h", "H", "H", "h", "h">>,
      S2CH |-> <<"I", "H", "H", "h", "h", "H", "H">>,
      C2SF |-> <<"I", "H", "H", "h", "h">>,
      EVCT |-> <<"I", "H">>,
      RSGR |-> <<"H", "H">>,
      CAPS |-> <<"I", "I">>,
      INIT |-> <<"I", "I", "I">>,
      CLRC |-> <<"I", "H", "H", "H", "H", "H", "I">>,
      PROG |-> <<"I", "H", "H", "H", "H", "H", "I">>,
      WEBP |-> <<"I", "H", "H", "H", "H", "H", "I">>,
      TILE |-> <<"I", "H", "H", "H", "H", "H", "I">>,
      H264 |-> <<"I", "H", "H", "B", "h", "h", "H", "H", "I", "I">> ]

Builders == DOMAIN struct_format

RECURSIVE Concat(_)
Concat(seqs) == IF seqs = <<>> THEN <<>> ELSE Head(seqs) \o Concat(Tail(seqs))

\* A builder of wire_format.py: the header packed from the fields and the
\* length of each payload, then the payloads; struct.error when a value does
\* not fit its format code.
build_bytes(magic, fields, payloads) ==
    LET values == fields \o [i \in DOMAIN payloads |-> U32(Len(payloads[i]), 0)]
        format == struct_format[magic]
    IN  IF /\ Len(values) = Len(format)
           /\ \A i \in DOMAIN format : struct_fits(format[i], values[i])
        THEN [res |-> "ok",
              bytes |-> Magic[magic] \o struct_pack(format, values) \o Concat(payloads)]
        ELSE [res |-> "raise", bytes |-> <<>>]

\* build_init_settings: the 17 named settings are bits 0..16 of flagsLow (the
\* set of the bits that are on); flagsHigh is written 0.
RECURSIVE SumPow2(_)
SumPow2(bits) ==
    IF bits = {} THEN 0
    ELSE LET b == CHOOSE x \in bits : TRUE IN Pow2(b) + SumPow2(bits \ {b})
init_flags_low(settings) ==
    U32(SumPow2({b \in settings : b < 16}), SumPow2({b - 16 : b \in {x \in settings : x >= 16}}))
build_init_settings_bytes(color_depth, settings) ==
    build_bytes("INIT", <<color_depth, init_flags_low(settings), U32(0, 0)>>, <<>>)

\* The receiver's decoder, from the message catalog: the layout of each
\* family and the number of payloads whose lengths end the header.
catalog_layout ==
    [ SURF |-> <<"H", "H", "H", "H">>,
      DELS |-> <<"H">>,
      MAPS |-> <<"H", "H", "H">>,
      STFR |-> <<"I">>,
      ENFR |-> <<"I">>,
      SFIL |-> <<"I", "H", "h", "h", "H", "H", "I">>,
      S2SF |-> <<"I", "H", "H", "h", "h", "h", "h", "h", "h">>,
      S2CH |-> <<"I", "H", "H", "h", "h", "H", "H">>,
      C2SF |-> <<"I", "H", "H", "h", "h">>,
      EVCT |-> <<"I", "H">>,
      RSGR |-> <<"H", "H">>,
      CAPS |-> <<"I", "I">>,
      INIT |-> <<"I", "I", "I">>,
      CLRC |-> <<"I", "H", "H", "H", "H", "H", "I">>,
      PROG |-> <<"I", "H", "H", "H", "H", "H", "I">>,
      WEBP |-> <<"I", "H", "H", "H", "H", "H", "I">>,
      TILE |-> <<"I", "H", "H", "H", "H", "H", "I">>,
      H264 |-> <<"I", "H", "H", "B", "h", "h", "H", "H", "I", "I">>,
      FACK |-> <<"I", "I", "I">> ]
catalog_payloads(magic) ==
    IF magic \in {"CLRC", "PROG", "WEBP", "TILE"} THEN 1
    ELSE IF magic = "H264" THEN 2
    ELSE 0

code_size(code) == IF code = "B" THEN 1 ELSE IF code = "I" THEN 4 ELSE 2

RECURSIVE layout_size(_)
layout_size(layout) ==
    IF layout = <<>> THEN 0 ELSE code_size(Head(layout)) + layout_size(Tail(layout))

unpack_u16(bytes, at) == bytes[at] + 256 * bytes[at + 1]
unpack_value(code, bytes, at) ==
    CASE code = "B" -> bytes[at]
      [] code = "H" -> unpack_u16(bytes, at)
      [] code = "h" -> IF unpack_u16(bytes, at) >= 32768 THEN unpack_u16(bytes, at) - 65536
                       ELSE unpack_u16(bytes, at)
      [] OTHER -> unpack_u32(bytes, at)

\* The fields of a layout read from a buffer, the first one at position at.
RECURSIVE unpack_fields(_, _, _)
unpack_fields(layout, bytes, at) ==
    IF layout = <<>> THEN <<>>
    ELSE <<unpack_value(Head(layout), bytes, at)>>
             \o unpack_fields(Tail(layout), bytes, at + code_size(Head(layout)))

\* The payloads of the given lengths, the first one starting at position at.
RECURSIVE split_payloads(_, _, _)
split_payloads(bytes, at, lengths) ==
    IF lengths = <<>> THEN <<>>
    ELSE <<SubSeq(bytes, at, at + Head(lengths) - 1)>>
             \o split_payloads(bytes, at + Head(lengths), Tail(lengths))

RECURSIVE SumSeq(_)
SumSeq(seq) == IF seq = <<>> THEN 0 ELSE Head(seq) + SumSeq(Tail(seq))

Invalid == [res |-> "invalid", magic |-> "", fields |-> <<>>, payloads |-> <<>>]

\* decode: the magic selects the layout; a buffer shorter than the header, or
\* whose payload lengths disagree with the bytes that remain, is invalid.
decode(bytes) ==
    IF Len(bytes) < 4 \/ ~(\E m \in DOMAIN catalog_layout : Magic[m] = SubSeq(bytes, 1, 4))
    THEN Invalid
    ELSE LET magic == CHOOSE m \in DOMAIN catalog_layout : Magic[m] = SubSeq(bytes, 1, 4)
             layout == catalog_layout[magic]
             header == 4 + layout_size(layout)
         IN  IF Len(bytes) < header THEN Invalid
             ELSE LET all == unpack_fields(layout, bytes, 5)
                      n == Len(all) - catalog_payloads(magic)
                      lengths == [i \in 1..catalog_payloads(magic) |->
                                     all[n + i].lo + 65536 * all[n + i].hi]
                  IN  IF \/ \E i \in DOMAIN lengths : all[n + i].hi > 0
                         \/ (catalog_payloads(magic) > 0
                                /\ SumSeq(lengths) # Len(bytes) - header)
                         \/ (catalog_payloads(magic) = 0 /\ Len(bytes) # header)
                      THEN Invalid
                      ELSE [res |-> "ok", magic |-> magic, fields |-> SubSeq(all, 1, n),
                            payloads |-> split_payloads(bytes, header + 1, lengths)]

\* The settings that a decoded flagsLow names.
settings_of(flags_low) ==
    {b \in 0..15 : (flags_low.lo \div Pow2(b)) % 2 = 1}
        \cup {b + 16 : b \in {x \in 0..15 : (flags_low.hi \div Pow2(x)) % 2 = 1}}

\* The browser's FrameAck: 'FACK' and the three counters.
encode_frame_ack(frame_id, total_frames_decoded, queue_depth) ==
    Magic.FACK \o struct_pack(<<"I", "I", "I">>, <<frame_id, total_frames_decoded, queue_depth>>)

(***************************************************************************)
(* Security policy (rdp_security.py).  A string is a sequence of           *)
(* one-character strings.  A compiled regular expression is a sequence of  *)
(* tokens: a literal character, '.' (any character), '.*', a character     *)
(* class, or a backslash escape.                                           *)
(***************************************************************************)
UpperCase ==
    << "A", "B", "C", "D", "E", "F", "G", "H", "I", "J", "K", "L", "M",
       "N", "O", "P", "Q", "R", "S", "T", "U", "V", "W", "X", "Y", "Z" >>
LowerCase ==
    << "a", "b", "c", "d", "e", "f", "g", "h", "i", "j", "k", "l", "m",
       "n", "o", "p", "q", "r", "s", "t", "u", "v", "w", "x", "y", "z" >>
DigitChars == << "0", "1", "2", "3", "4", "5", "6", "7", "8", "9" >>

IsIn(c, seq) == \E i \in DOMAIN seq : seq[i] = c
IndexIn(c, seq) == CHOOSE i \in DOMAIN seq : seq[i] = c
Lower(c) == IF IsIn(c, UpperCase) THEN LowerCase[IndexIn(c, UpperCase)] ELSE c
Upper(c) == IF IsIn(c, LowerCase) THEN UpperCase[IndexIn(c, LowerCase)] ELSE c
IsDigit(c) == IsIn(c, DigitChars)
DigitValue(c) == IndexIn(c, DigitChars) - 1
\* Code-point order among digits, upper-case and lower-case letters.
Ord(c) == IndexIn(c, DigitChars \o UpperCase \o LowerCase)
IsAlnum(c) == IsIn(c, DigitChars \o UpperCase \o LowerCase)

LitTok(c) == [t |-> "lit", c |-> c, neg |-> FALSE, content |-> <<>>]
AnyTok == [t |-> "any", c |-> "", neg |-> FALSE, content |-> <<>>]
StarTok == [t |-> "star", c |-> "", neg |-> FALSE, content |-> <<>>]
EscTok(c) == [t |-> "esc", c |-> c, neg |-> FALSE, content |-> <<>>]
ClassTok(neg, content) == [t |-> "class", c |-> "", neg |-> neg, content |-> content]

\* glob_to_regex, character class: the position of the closing bracket when
\* scanning from position j (a backslash skips the character after it), or 0.
RECURSIVE ClassEnd(_, _)
ClassEnd(glob, j) ==
    IF j > Len(glob) THEN 0
    ELSE IF glob[j] = "]" THEN j
    ELSE IF glob[j] = "\\" /\ j + 1 <= Len(glob) THEN ClassEnd(glob, j + 2)
    ELSE ClassEnd(glob, j + 1)

\* glob_to_regex: the tokens of the regular expression built from position i on.
RECURSIVE GlobTokens(_, _)
GlobTokens(glob, i) ==
    IF i > Len(glob) THEN <<>>
    ELSE LET char == glob[i]
         IN  IF char = "*" THEN <<StarTok>> \o GlobTokens(glob, i + 1)
             ELSE IF char = "?" THEN <<AnyTok>> \o GlobTokens(glob, i + 1)
             ELSE IF char = "["
             THEN LET negated == i + 1 <= Len(glob) /\ glob[i + 1] \in {"!", "^"}
                      first == IF negated THEN i + 2 ELSE i + 1
                      close == ClassEnd(glob, first)
                  IN  IF close # 0
                      THEN <<ClassTok(negated, SubSeq(glob, first, close - 1))>>
                               \o GlobTokens(glob, close + 1)
                      ELSE <<LitTok("[")>> \o GlobTokens(glob, i + 1)
             ELSE IF char = "\\"
             THEN IF i + 1 <= Len(glob)
                  THEN <<EscTok(glob[i + 1])>> \o GlobTokens(glob, i + 2)
                  ELSE <<LitTok("\\")>>
             ELSE <<LitTok(char)>> \o GlobTokens(glob, i + 1)

\* re.compile('^' + regex + '$', re.IGNORECASE)
glob_to_regex(glob) ==
    [tokens |-> GlobTokens(glob, 1), start |-> TRUE, end |-> TRUE, ignorecase |-> TRUE]

\* re.compile accepts the expression: a backslash before a letter or digit
\* must be one of \d, \w, \s, and a character class must not be empty.
\* (A glob with an empty class followed by a later ']' is not among the
\* inputs of the model.)
CompilesTok(tok) ==
    /\ tok.t = "esc" => (~IsAlnum(tok.c) \/ tok.c \in {"d", "w", "s"})
    /\ tok.t = "class" => tok.content # <<>>
Compiles(tokens) == \A k \in DOMAIN tokens : CompilesTok(tokens[k])

\* The characters a backslash escape stands for.
EscHas(e, c) ==
    IF e = "d" THEN IsDigit(c)
    ELSE IF e = "w" THEN IsAlnum(c) \/ c = "_"
    ELSE IF e = "s" THEN c = " "
    ELSE c = e

\* Membership of a character in the content of a character class: ranges
\* x-y, escapes, single characters.
RECURSIVE ClassHas(_, _, _)
ClassHas(content, k, c) ==
    IF k > Len(content) THEN FALSE
    ELSE IF content[k] = "\\" /\ k + 1 <= Len(content)
    THEN EscHas(content[k + 1], c) \/ ClassHas(content, k + 2, c)
    ELSE IF k + 2 <= Len(content) /\ content[k + 1] = "-"
    THEN \/ /\ IsAlnum(c) /\ IsAlnum(content[k]) /\ IsAlnum(content[k + 2])
            /\ Ord(content[k]) <= Ord(c) /\ Ord(c) <= Ord(content[k + 2])
         \/ ClassHas(content, k + 3, c)
    ELSE content[k] = c \/ ClassHas(content, k + 1, c)

\* One token matches one character.
TokMatches(tok, c, ignorecase) ==
    LET Has(x) ==
            CASE tok.t = "lit" -> tok.c = x
              [] tok.t = "any" -> TRUE
              [] tok.t = "esc" -> EscHas(tok.c, x)
              [] tok.t = "class" -> ClassHas(tok.content, 1, x)
              [] OTHER -> FALSE
        hit == IF ignorecase /\ tok.t # "any"
               THEN Has(c) \/ Has(Lower(c)) \/ Has(Upper(c))
               ELSE Has(c)
    IN  IF tok.t = "class" /\ tok.neg THEN ~hit ELSE hit

\* The tokens from position k on match the string from position j on, up to
\* its end (toEnd) or up to any position.
RECURSIVE MatchFrom(_, _, _, _, _, _)
MatchFrom(tokens, k, str, j, toEnd, ignorecase) ==
    IF k > Len(tokens) THEN (~toEnd \/ j > Len(str))
    ELSE IF tokens[k].t = "star"
    THEN \/ MatchFrom(tokens, k + 1, str, j, toEnd, ignorecase)
         \/ j <= Len(str) /\ MatchFrom(tokens, k, str, j + 1, toEnd, ignorecase)
    ELSE /\ j <= Len(str)
         /\ TokMatches(tokens[k], str[j], ignorecase)
         /\ MatchFrom(tokens, k + 1, str, j + 1, toEnd, ignorecase)

\* regex.match(s) / regex.search(s) of a compiled expression.
RegexMatch(re, str) == MatchFrom(re.tokens, 1, str, 1, re.end, re.ignorecase)
RegexSearch(re, str) ==
    \E j \in 1..(Len(str) + 1) :
        /\ re.start => j = 1
        /\ MatchFrom(re.tokens, 1, str, j, re.end, re.ignorecase)

\* match_glob: an expression that does not compile is logged and matches nothing.
match_glob(str, pattern) ==
    IF Compiles(glob_to_regex(pattern).tokens)
    THEN RegexMatch(glob_to_regex(pattern), str)
    ELSE FALSE

\* str.split(sep): the pieces of the string between separators.
RECURSIVE Split(_, _)
Split(str, sep) ==
    IF \E i \in DOMAIN str : str[i] = sep
    THEN LET i == CHOOSE k \in DOMAIN str : str[k] = sep /\ \A m \in 1..(k - 1) : str[m] # sep
         IN  <<SubSeq(str, 1, i - 1)>> \o Split(SubSeq(str, i + 1, Len(str)), sep)
    ELSE <<str>>

\* The value of a string of decimal digits.
RECURSIVE DecimalValue(_)
DecimalValue(str) ==
    IF str = <<>> THEN 0
    ELSE 10 * DecimalValue(SubSeq(str, 1, Len(str) - 1)) + DigitValue(str[Len(str)])

IsDecimal(str) == str # <<>> /\ \A i \in DOMAIN str : IsDigit(str[i])

\* str(n) of a non-negative integer.
RECURSIVE DecimalString(_)
DecimalString(n) ==
    IF n < 10 THEN <<DigitChars[n + 1]>>
    ELSE DecimalString(n \div 10) \o <<DigitChars[(n % 10) + 1]>>

\* int(s): an optional sign and decimal digits, surrounding blanks ignored;
\* anything else raises ValueError.
RECURSIVE Strip(_)
Strip(str) ==
    IF str # <<>> /\ str[1] = " " THEN Strip(Tail(str))
    ELSE IF str # <<>> /\ str[Len(str)] = " " THEN Strip(SubSeq(str, 1, Len(str) - 1))
    ELSE str
NotUnderscore(c) == c # "_"
\* Digits, with single underscores between them.
IsGrouped(str) ==
    /\ str # <<>> /\ IsDigit(str[1]) /\ IsDigit(str[Len(str)])
    /\ \A i \in DOMAIN str : IsDigit(str[i]) \/ str[i] = "_"
    /\ \A i \in 1..(Len(str) - 1) : ~(str[i] = "_" /\ str[i + 1] = "_")
PyInt(str) ==
    LET body == Strip(str)
        signed == body # <<>> /\ body[1] \in {"+", "-"}
        digits == IF signed THEN Tail(body) ELSE body
        number == DecimalValue(SelectSeq(digits, NotUnderscore))
    IN  IF IsGrouped(digits)
        THEN [res |-> "ok",
              value |-> IF signed /\ body[1] = "-" THEN 0 - number ELSE number]
        ELSE [res |-> "raise", value |-> 0]

\* is_ipv4: four groups of one to three digits separated by dots, each at
\* most 255.
is_ipv4(str) ==
    LET groups == Split(str, ".")
    IN  /\ Len(groups) = 4
        /\ \A i \in 1..4 : IsDecimal(groups[i]) /\ Len(groups[i]) <= 3
        /\ \A i \in 1..4 : DecimalValue(groups[i]) <= 255

\* ipv4_to_int: the 32-bit address, kept as two 16-bit halves.
ipv4_to_int(ip) ==
    LET parts == Split(ip, ".")
    IN  [hi |-> DecimalValue(parts[1]) * 256 + DecimalValue(parts[2]),
         lo |-> DecimalValue(parts[3]) * 256 + DecimalValue(parts[4])]

\* Bitwise and of two non-negative integers.
RECURSIVE BitAnd(_, _)
BitAnd(x, y) ==
    IF x = 0 \/ y = 0 THEN 0
    ELSE (x % 2) * (y % 2) + 2 * BitAnd(x \div 2, y \div 2)

\* (~0 << (32 - prefix)) & 0xFFFFFFFF, and 0 for prefix 0: ones in the top
\* prefix bits, as two 16-bit halves.
PrefixMask_HostBits(prefix) == [hi |-> IF prefix >= 16 THEN 0 ELSE Pow2(16 - prefix) - 1, lo |-> IF prefix <= 16 THEN 65535 ELSE Pow2(32 - prefix) - 1]
PrefixMask(prefix) ==
    [hi |-> IF prefix >= 16 THEN 65535 ELSE 65536 - Pow2(16 - prefix),
     lo |-> IF prefix <= 16 THEN 0 ELSE 65536 - Pow2(32 - prefix)]

And32(x, mask) == [hi |-> BitAnd(x.hi, mask.hi), lo |-> BitAnd(x.lo, mask.lo)]

\* is_ip_in_cidr: res is "raise" when the prefix is not an integer literal.
is_ip_in_cidr(ip, cidr) ==
    LET parts == Split(cidr, "/")
        range_ip == parts[1]
        prefix == IF Len(parts) > 1 THEN PyInt(parts[2]) ELSE [res |-> "ok", value |-> 32]
    IN  IF prefix.res = "raise" THEN [res |-> "raise", value |-> FALSE]
        ELSE IF ~is_ipv4(range_ip) \/ prefix.value < 0 \/ prefix.value > 32
        THEN [res |-> "ok", value |-> FALSE]
        ELSE [res |-> "ok",
              value |-> And32(ipv4_to_int(ip), PrefixMask(prefix.value))
                            = And32(ipv4_to_int(range_ip), PrefixMask(prefix.value))]

\* RDPSecurityPolicy.__init__: the three rule lists (a key that is missing
\* or not a list is an empty list here) and the destination expressions
\* that compile.
PatternCompiles(re) == Compiles(re.tokens)
CompiledOf(patterns) == SelectSeq(patterns, PatternCompiles)
RDPSecurityPolicy(hostnames, cidrs, regexes) ==
    [allowedHostnames |-> hostnames,
     allowedIpv4Cidrs |-> cidrs,
     allowedDestinationRegex |-> regexes,
     compiled_regexes |-> CompiledOf(regexes)]

\* has_rules counting the expressions that compiled.
has_rules_CompiledOnly(p) == Len(p.allowedHostnames) > 0 \/ Len(p.allowedIpv4Cidrs) > 0 \/ Len(p.compiled_regexes) > 0
has_rules(p) ==
    \/ Len(p.allowedHostnames) > 0
    \/ Len(p.allowedIpv4Cidrs) > 0
    \/ Len(p.allowedDestinationRegex) > 0

Destination(host, port) == host \o <<":">> \o DecimalString(port)

Allowed == [res |-> "ok", allowed |-> TRUE, reason |-> <<>>]
Denied(destination) == [res |-> "ok", allowed |-> FALSE, reason |-> <<"blocked", destination>>]
ValidateRaises == [res |-> "raise", allowed |-> FALSE, reason |-> <<>>]

\* The loop over the CIDR rules from rule k on: "allow" at the first rule that
\* holds the address, "raise" at the first rule that is_ip_in_cidr raises on.
RECURSIVE CidrScan(_, _, _)
CidrScan(host, cidrs, k) ==
    IF k > Len(cidrs) THEN "none"
    ELSE LET r == is_ip_in_cidr(host, cidrs[k])
         IN  IF r.res = "raise" THEN "raise"
             ELSE IF r.value THEN "allow"
             ELSE CidrScan(host, cidrs, k + 1)

validate(p, host, port) ==
    LET destination == Destination(host, port)
        host_is_ipv4 == is_ipv4(host)
    IN  IF ~has_rules(p) THEN Allowed
        ELSE IF /\ Len(p.allowedDestinationRegex) > 0
                /\ \E k \in DOMAIN p.compiled_regexes :
                       RegexSearch(p.compiled_regexes[k], destination)
        THEN Allowed
        ELSE IF /\ ~host_is_ipv4
                /\ \E k \in DOMAIN p.allowedHostnames :
                       match_glob(host, p.allowedHostnames[k])
        THEN Allowed
        ELSE IF host_is_ipv4 /\ CidrScan(host, p.allowedIpv4Cidrs, 1) = "allow"
        THEN Allowed
        ELSE IF host_is_ipv4 /\ CidrScan(host, p.allowedIpv4Cidrs, 1) = "raise"
        THEN ValidateRaises
        ELSE Denied(destination)

(***************************************************************************)
(* RDPBridge._build_gfx_event_message: the wire message of an event        *)
(* (res = "msg"), None (res = "none") or an exception out of struct.pack   *)
(* (res = "raise"), and in freed the pointer fields of the event that were *)
(* passed to rdp_free_gfx_event_data on the way.  A pointer is 0 (NULL) or *)
(* the identity of a native buffer.                                        *)
(***************************************************************************)
WithFreed(r, freed) == [res |-> r.res, msg |-> r.msg, freed |-> freed]

\* The WebP branch looking at the pointer only, not at the size.
BuildWebpTile_NoSizeCheck(event) ==
    IF event.bitmap_data # 0
    THEN WithFreed(build_webp_tile(event.frame_id, event.surface_id, event.x, event.y,
                                   event.width, event.height,
                                   <<event.bitmap_data, event.bitmap_size>>),
                   <<"bitmap_data">>)
    ELSE WithFreed(NoMessage, <<>>)

BuildWebpTile(event) ==
    IF event.bitmap_data # 0 /\ event.bitmap_size > 0
    THEN WithFreed(build_webp_tile(event.frame_id, event.surface_id, event.x, event.y,
                                   event.width, event.height,
                                   <<event.bitmap_data, event.bitmap_size>>),
                   <<"bitmap_data">>)
    ELSE WithFreed(NoMessage, <<>>)

\* H264 message assembled inline with struct.pack
\* '<I' '<H' '<H' '<B' '<h' '<h' '<H' '<H' '<I' '<I'.
BuildH264Frame(event) ==
    LET hasChroma == event.chroma_nal_data # 0 /\ event.chroma_nal_size > 0
        chromaLen == IF hasChroma THEN event.chroma_nal_size ELSE 0
        ok == AllTrue({FitsU32(event.frame_id), FitsU16(event.surface_id),
                       FitsU16(event.codec_id), FitsU8(event.video_frame_type),
                       FitsI16(event.x), FitsI16(event.y),
                       FitsU16(event.width), FitsU16(event.height),
                       FitsU32(event.nal_size)})
    IN  WithFreed(
            Packed(ok, "H264",
                   <<event.frame_id, event.surface_id, event.codec_id,
                     event.video_frame_type, event.x, event.y, event.width,
                     event.height, event.nal_size, chromaLen>>,
                   IF hasChroma
                   THEN <<<<event.nal_data, event.nal_size>>,
                          <<event.chroma_nal_data, event.chroma_nal_size>>>>
                   ELSE <<<<event.nal_data, event.nal_size>>>>),
            IF hasChroma THEN <<"nal_data", "chroma_nal_data">> ELSE <<"nal_data">>)

\* The video branch without the ClearCodec route.
BuildVideoFrame_NoClearCodecRoute(event) ==
    IF event.nal_data # 0 /\ event.nal_size > 0
    THEN BuildH264Frame(event)
    ELSE WithFreed(NoMessage, <<>>)

BuildVideoFrame(event) ==
    IF event.nal_data # 0 /\ event.nal_size > 0
    THEN IF event.codec_id = RDP_GFX_CODEC_CLEARCODEC
         THEN WithFreed(build_clearcodec_tile(event.frame_id, event.surface_id,
                                              event.x, event.y, event.width, event.height,
                                              <<event.nal_data, event.nal_size>>),
                        <<"nal_data">>)
         ELSE BuildH264Frame(event)
    ELSE WithFreed(NoMessage, <<>>)

_build_gfx_event_message(event) ==
    CASE event.type = RDP_GFX_EVENT_CREATE_SURFACE ->
            WithFreed(build_create_surface(event.surface_id, event.width, event.height,
                                           event.pixel_format), <<>>)
      [] event.type = RDP_GFX_EVENT_DELETE_SURFACE ->
            WithFreed(build_delete_surface(event.surface_id), <<>>)
      [] event.type = RDP_GFX_EVENT_MAP_SURFACE ->
            WithFreed(build_map_surface_to_output(event.surface_id, event.x, event.y), <<>>)
      [] event.type = RDP_GFX_EVENT_START_FRAME ->
            WithFreed(build_start_frame(event.frame_id), <<>>)
      [] event.type = RDP_GFX_EVENT_END_FRAME ->
            WithFreed(build_end_frame(event.frame_id), <<>>)
      [] event.type = RDP_GFX_EVENT_SOLID_FILL ->
            WithFreed(build_solid_fill(event.frame_id, event.surface_id, event.x, event.y,
                                       event.width, event.height, event.color), <<>>)
      [] event.type = RDP_GFX_EVENT_SURFACE_TO_SURFACE ->
            WithFreed(build_surface_to_surface(event.frame_id, event.surface_id,
                                               event.dst_surface_id, event.src_x, event.src_y,
                                               event.width, event.height, event.x, event.y),
                      <<>>)
      [] event.type = RDP_GFX_EVENT_SURFACE_TO_CACHE ->
            WithFreed(build_surface_to_cache(event.frame_id, event.surface_id,
                                             event.cache_slot, event.x, event.y,
                                             event.width, event.height), <<>>)
      [] event.type = RDP_GFX_EVENT_CACHE_TO_SURFACE ->
            WithFreed(build_cache_to_surface(event.frame_id, event.surface_id,
                                             event.cache_slot, event.x, event.y), <<>>)
      [] event.type = RDP_GFX_EVENT_EVICT_CACHE ->
            WithFreed(build_evict_cache(event.frame_id, event.cache_slot), <<>>)
      [] event.type = RDP_GFX_EVENT_RESET_GRAPHICS ->
            WithFreed(build_reset_graphics(event.width, event.height), <<>>)
      [] event.type = RDP_GFX_EVENT_CAPS_CONFIRM ->
            WithFreed(build_caps_confirm(event.gfx_version, event.gfx_flags), <<>>)
      [] event.type = RDP_GFX_EVENT_INIT_SETTINGS ->
            WithFreed(build_init_settings(event.init_color_depth, event.init_flags_low), <<>>)
      [] event.type = RDP_GFX_EVENT_WEBP_TILE -> BuildWebpTile(event)
      [] event.type = RDP_GFX_EVENT_VIDEO_FRAME -> BuildVideoFrame(event)
      [] OTHER -> WithFreed(NoMessage, <<>>)

(***************************************************************************)
(* Events the Session Handle can deliver (RdpGfxEvent).                    *)
(***************************************************************************)
BlankEvent ==
    [type |-> RDP_GFX_EVENT_NONE, frame_id |-> 0, surface_id |-> 0, dst_surface_id |-> 0,
     width |-> 0, height |-> 0, pixel_format |-> 0, x |-> 0, y |-> 0,
     src_x |-> 0, src_y |-> 0, color |-> 0, cache_slot |-> 0,
     bitmap_data |-> 0, bitmap_size |-> 0,
     codec_id |-> 0, video_frame_type |-> 0,
     nal_data |-> 0, nal_size |-> 0, chroma_nal_data |-> 0, chroma_nal_size |-> 0,
     gfx_version |-> 0, gfx_flags |-> 0, init_color_depth |-> 0, init_flags_low |-> 0]

StartFrameEv(id) == [BlankEvent EXCEPT !.type = RDP_GFX_EVENT_START_FRAME, !.frame_id = id]
EndFrameEv(id) == [BlankEvent EXCEPT !.type = RDP_GFX_EVENT_END_FRAME, !.frame_id = id]
SolidFillEv(id, sid, w, h) ==
    [BlankEvent EXCEPT !.type = RDP_GFX_EVENT_SOLID_FILL, !.frame_id = id, !.surface_id = sid,
                       !.width = w, !.height = h, !.color = 16777215]
CreateSurfaceEv(sid, w, h) ==
    [BlankEvent EXCEPT !.type = RDP_GFX_EVENT_CREATE_SURFACE, !.surface_id = sid,
                       !.width = w, !.height = h, !.pixel_format = 32]
WebpTileEv(id, ptr, size) ==
    [BlankEvent EXCEPT !.type = RDP_GFX_EVENT_WEBP_TILE, !.frame_id = id, !.surface_id = 1,
                       !.width = 64, !.height = 64, !.bitmap_data = ptr, !.bitmap_size = size]
VideoFrameEv(id, codec, nal, nalSize, chroma, chromaSize) ==
    [BlankEvent EXCEPT !.type = RDP_GFX_EVENT_VIDEO_FRAME, !.frame_id = id, !.surface_id = 1,
                       !.width = 64, !.height = 64, !.codec_id = codec,
                       !.nal_data = nal, !.nal_size = nalSize,
                       !.chroma_nal_data = chroma, !.chroma_nal_size = chromaSize]

DeleteSurfaceEv(sid) ==
    [BlankEvent EXCEPT !.type = RDP_GFX_EVENT_DELETE_SURFACE, !.surface_id = sid]
MapSurfaceEv(sid, ox, oy) ==
    [BlankEvent EXCEPT !.type = RDP_GFX_EVENT_MAP_SURFACE, !.surface_id = sid, !.x = ox, !.y = oy]
SurfaceToSurfaceEv(id, sid, dst, w, h) ==
    [BlankEvent EXCEPT !.type = RDP_GFX_EVENT_SURFACE_TO_SURFACE, !.frame_id = id,
                       !.surface_id = sid, !.dst_surface_id = dst, !.src_x = 16, !.src_y = 32,
                       !.width = w, !.height = h, !.x = 48, !.y = 64]
SurfaceToCacheEv(id, sid, slot, w, h) ==
    [BlankEvent EXCEPT !.type = RDP_GFX_EVENT_SURFACE_TO_CACHE, !.frame_id = id,
                       !.surface_id = sid, !.cache_slot = slot, !.x = 16, !.y = 32,
                       !.width = w, !.height = h]
CacheToSurfaceEv(id, sid, slot) ==
    [BlankEvent EXCEPT !.type = RDP_GFX_EVENT_CACHE_TO_SURFACE, !.frame_id = id,
                       !.surface_id = sid, !.cache_slot = slot, !.x = 48, !.y = 64]
EvictCacheEv(id, slot) ==
    [BlankEvent EXCEPT !.type = RDP_GFX_EVENT_EVICT_CACHE, !.frame_id = id, !.cache_slot = slot]
ResetGraphicsEv(w, h) ==
    [BlankEvent EXCEPT !.type = RDP_GFX_EVENT_RESET_GRAPHICS, !.width = w, !.height = h]
CapsConfirmEv(version, flags) ==
    [BlankEvent EXCEPT !.type = RDP_GFX_EVENT_CAPS_CONFIRM, !.gfx_version = version,
                       !.gfx_flags = flags]
InitSettingsEv(depth, flags) ==
    [BlankEvent EXCEPT !.type = RDP_GFX_EVENT_INIT_SETTINGS, !.init_color_depth = depth,
                       !.init_flags_low = flags]
\* An event whose type field has no branch in _build_gfx_event_message.
UntypedEv(type) == [BlankEvent EXCEPT !.type = type, !.frame_id = 5, !.width = 64, !.height = 64]

\* width does not fit the u16 field of SURF: build_create_surface raises.
OversizeSurfaceEv == CreateSurfaceEv(1, 70000, 480)

EventPool ==
    { StartFrameEv(5), EndFrameEv(5), SolidFillEv(5, 1, 640, 480), OversizeSurfaceEv,
      WebpTileEv(5, 7, 0),
      VideoFrameEv(5, RDP_GFX_CODEC_CLEARCODEC, 8, 200, 9, 50) }

\* Pointer fields of an event that name an externally-owned buffer.
PtrFields == {"bitmap_data", "nal_data", "chroma_nal_data"}
OwnedBuffers(event) == {fld \in PtrFields : event[fld] # 0}

(***************************************************************************)
(* Disconnect reasons: a string is modelled by what it says and its length *)
(* in characters.                                                          *)
(***************************************************************************)
NoReason == [text |-> "", len |-> 0]
CancelledReason == [text |-> "Cancelled", len |-> 9]
ConnectionClosedReason == [text |-> "Connection closed", len |-> 17]
\* rdp_get_error(): None, or the UTF-8 text of the native error.
NativeErrors == {NoReason, [text |-> "native error", len |-> 300]}
\* The reason passed on without the slice.
Truncate_Whole(r) == r

\* disconnect_reason[:120]
Truncate(r) == [text |-> r.text, len |-> IF r.len < CloseReasonMax THEN r.len ELSE CloseReasonMax]

(***************************************************************************)
(* State.                                                                  *)
(***************************************************************************)
VARIABLES
    ws,                \* the transport: "open" or "closed"
    sent,              \* messages written to the transport, in order
    closeCalls,        \* websocket.close(code, reason) calls made by the bridges
    cpu,               \* the asyncio task running between two suspension points
    hpc,               \* handle_client: position
    hctx,              \* handle_client: disconnect() called from "msg" or "finally"
    rdp_bridge,        \* handle_client: local rdp_bridge (0 = None)
    created,           \* number of RDPBridge objects constructed
    running,           \* RDPBridge.running
    session,           \* RDPBridge._session is set
    handle,            \* native Session Handle: "none", "created", "connected", "destroyed"
    fpc,               \* _stream_frames task: position
    fcancel,           \* _frame_task.cancel() requested and not yet delivered
    apc,               \* _stream_audio task: position
    acancel,           \* _audio_task.cancel() requested and not yet delivered
    queue,             \* native GFX event queue of the Session Handle
    produced,          \* events queued so far (all handles)
    events_sent,       \* _stream_frames: events_sent
    frame_completed,   \* _stream_frames: frame_completed
    current_frame_id,  \* _stream_frames: current_frame_id
    disconnect_reason, \* _stream_frames: disconnect_reason
    audioBuf,          \* native Opus buffer of the Session Handle
    audioProduced,     \* Opus frames buffered so far (all handles)
    frames_this_batch, \* _stream_audio: frames_this_batch
    drained,           \* history: events taken with rdp_gfx_get_event, in order
    freeCount,         \* history: rdp_free_gfx_event_data calls per drained event and field
    cycleSent,         \* history: graphics messages sent since the last poll was issued
    pollFailed,        \* history: rdp_poll reported an error to the frame loop
    worker,            \* executor thread of each bridge: "idle" or "polling" (inside rdp_poll)
    sendFailed,        \* history: a websocket.send of the bridge's loops raised
    inbound,           \* history: binary messages handle_client received, with the outcome
    nativeAcks,        \* history: rdp_gfx_send_frame_ack calls made on the Session Handles
    nativeCalls,       \* history: native calls of connect, disconnect, resize and the input methods
    resizes,           \* history: RDPBridge.resize calls, with what they returned
    config,            \* RDPBridge.config: host and port of the 'connect' request
    policyFile,        \* the rule lists in the deployment's security policy file
    global_security_policy, \* rdp_security._global_security_policy
    verdicts,          \* history: validate calls on the global policy, with the result
    codec,             \* the last message encoded and decoded again (NoCodec: none)
    monitor,           \* _stream_audio: the health-monitoring locals of each bridge
    audioHist,         \* history: errors in a row, warnings and snapshots per stall
    membership,        \* the last is_ip_in_cidr call and its outcome (NoMembership: none)
    registry,          \* the last _init_session_registry run (NoRegistry: none)
    objects            \* a policy, the dict it was built from and the dict get_policy gave

vars == <<ws, sent, closeCalls, cpu, hpc, hctx, rdp_bridge, created, running, session,
          handle, fpc, fcancel, apc, acancel, queue, produced,
          events_sent, frame_completed, current_frame_id, disconnect_reason,
          audioBuf, audioProduced, frames_this_batch, drained, freeCount, cycleSent,
          pollFailed, worker, sendFailed, inbound, nativeAcks, nativeCalls, resizes,
          config, policyFile, global_security_policy, verdicts, codec,
          monitor, audioHist, membership, registry, objects>>

transportVars == <<ws, sent, closeCalls>>
handlerVars == <<hpc, hctx, rdp_bridge, created>>
bridgeVars == <<running, session, handle>>
frameVars == <<fpc, fcancel, events_sent, frame_completed, current_frame_id,
               disconnect_reason, drained, freeCount, cycleSent, pollFailed, worker>>
audioVars == <<apc, acancel, frames_this_batch>>
nativeVars == <<queue, produced, audioBuf, audioProduced>>
inboundVars == <<inbound, nativeAcks, nativeCalls, resizes>>
policyVars == <<policyFile, global_security_policy, verdicts>>
audioMonVars == <<monitor, audioHist>>
calcVars == <<codec, membership, registry, objects>>
pureVars == <<calcVars, audioMonVars>>
connVars == <<transportVars, cpu, handlerVars, bridgeVars, frameVars, audioVars, nativeVars,
              sendFailed, inboundVars, policyVars, config, audioMonVars>>

\* RDPConfig: the destination of a session and the size of its desktop; a
\* 'connect' request without width and height gets 1280 x 720.
RDPConfig(host, port) == [host |-> host, port |-> port, width |-> DefaultWidth, height |-> DefaultHeight]
NoConfig == RDPConfig(<<>>, 0)
DefaultHost == <<"d", "b", ".", "c", "o", "r", "p">>

\* The policy file: a JSON object with its three rule lists ("object"), a
\* JSON document that is an array or null, a file that is not JSON
\* ("invalid"), a file that cannot be opened or decoded ("unreadable"), or no
\* file at all ("missing").
FileOfKind(kind, hostnames, cidrs, regexes) ==
    [kind |-> kind, allowedHostnames |-> hostnames, allowedIpv4Cidrs |-> cidrs,
     allowedDestinationRegex |-> regexes]
PolicyFile(hostnames, cidrs, regexes) == FileOfKind("object", hostnames, cidrs, regexes)
NoPolicyFile == PolicyFile(<<>>, <<>>, <<>>)

\* The exception the try block of load_security_policy_from_file raises:
\* open (FileNotFoundError, PermissionError), json.load (JSONDecodeError) or
\* the constructor calling .get on a document that is a list (AttributeError).
NoException == "none"
TryLoad(file) ==
    IF file.kind = "missing" THEN "FileNotFoundError"
    ELSE IF file.kind = "unreadable" THEN "PermissionError"
    ELSE IF file.kind = "invalid" THEN "JSONDecodeError"
    ELSE IF file.kind = "array" THEN "AttributeError"
    ELSE NoException
\* The except clauses of the loader, in order; every exception above derives
\* from Exception.
ExceptClauses_NoCatchAll == <<"FileNotFoundError", "JSONDecodeError">>
ExceptClauses == <<"FileNotFoundError", "JSONDecodeError", "Exception">>
Catches(clause, exception) == clause = exception \/ clause = "Exception"
\* create_security_policy({}) / RDPSecurityPolicy(None)
EmptyPolicy == RDPSecurityPolicy(<<>>, <<>>, <<>>)
load_security_policy_from_file(file) ==
    LET exception == TryLoad(file)
    IN  IF exception = NoException
        THEN [res |-> "ok",
              policy |-> IF file.kind = "null" THEN EmptyPolicy
                         ELSE RDPSecurityPolicy(file.allowedHostnames, file.allowedIpv4Cidrs,
                                                file.allowedDestinationRegex)]
        ELSE IF \E k \in DOMAIN ExceptClauses : Catches(ExceptClauses[k], exception)
        THEN [res |-> "ok", policy |-> EmptyPolicy]
        ELSE [res |-> "raise", policy |-> EmptyPolicy]
NoPolicy == [loaded |-> FALSE, policy |-> EmptyPolicy]
LoadedPolicy(p) == [loaded |-> TRUE, policy |-> p]

\* A message, its bytes and what decoding the bytes gave.
CodecRun(magic, fields, settings, payloads, encoded, decoded) ==
    [magic |-> magic, fields |-> fields, settings |-> settings, payloads |-> payloads,
     encoded |-> encoded, decoded |-> decoded]
NoCodec == CodecRun("", <<>>, {}, <<>>, [res |-> "none", bytes |-> <<>>], Invalid)

\* _stream_audio: the locals before the first iteration.  silent: more than
\* 2 seconds have passed since last_frame_time.
MonitorStart ==
    [frames_sent |-> 0, consecutive_empty_polls |-> 0, stall_warning_logged |-> FALSE,
     stall_diag_logged |-> FALSE, error_count |-> 0, silent |-> FALSE]
\* errors: iterations in a row that ended in the exception handler; warnings
\* and snapshots: emitted since audio data was last available; stalls: stall
\* warnings emitted in all; burst: frames handed to the transport since the
\* iteration began.
NoAudioHist == [errors |-> 0, warnings |-> 0, snapshots |-> 0, stalls |-> 0, burst |-> 0]

\* One call is_ip_in_cidr(ip, base + suffix): the address and the base as
\* 32-bit values next to their text, the prefix the suffix was written from,
\* and what the call gave.
Membership(address, base, prefix, outcome) ==
    [address |-> address, base |-> base, prefix |-> prefix, outcome |-> outcome]
NoPrefix == [kind |-> "none", value |-> 0]
NoAddress == [text |-> <<>>, ipv4 |-> FALSE, hi |-> 0, lo |-> 0]
NoMembership == Membership(NoAddress, NoAddress, NoPrefix, [res |-> "none", value |-> FALSE])
\* One run of _init_session_registry: the RDP_MAX_SESSIONS setting and the
\* count handed to rdp_set_max_sessions.
NoRegistry == [setting |-> [kind |-> "none", value |-> 0, text |-> <<>>], max_sessions |-> 0]

(***************************************************************************)
(* The objects behind a policy.  A list or tuple is a cell with its items  *)
(* and whether it is a tuple (frozen); a dict binds each of the three rule *)
(* keys to the identity of a cell (0: the key is absent) and is a plain    *)
(* dict or a MappingProxyType (proxy).  Identities are positions in lists  *)
(* and dicts.                                                              *)
(***************************************************************************)
Cell(items, frozen) == [items |-> items, frozen |-> frozen]
Dict(h, c, r, proxy) ==
    [allowedHostnames |-> h, allowedIpv4Cidrs |-> c, allowedDestinationRegex |-> r,
     proxy |-> proxy]
RuleKeys == {"allowedHostnames", "allowedIpv4Cidrs", "allowedDestinationRegex"}
ItemsAt(lists, id) == IF id = 0 THEN <<>> ELSE lists[id].items

\* A copy of each value of dict d as a new list (list(x), copy.deepcopy) or
\* a new tuple (tuple(...)), and the dict that binds the keys to the copies.
CopiedLists(lists, d, frozen) ==
    lists \o << Cell(ItemsAt(lists, d.allowedHostnames), frozen),
                Cell(ItemsAt(lists, d.allowedIpv4Cidrs), frozen),
                Cell(ItemsAt(lists, d.allowedDestinationRegex), frozen) >>
CopiedDict(lists, d, proxy) ==
    Dict(IF d.allowedHostnames = 0 THEN 0 ELSE Len(lists) + 1,
         IF d.allowedIpv4Cidrs = 0 THEN 0 ELSE Len(lists) + 2,
         IF d.allowedDestinationRegex = 0 THEN 0 ELSE Len(lists) + 3, proxy)

\* deep_freeze of a dict of lists: a MappingProxyType over tuples.
deep_freeze_KeepsLists(lists, d) == [lists |-> CopiedLists(lists, d, FALSE), dict |-> CopiedDict(lists, d, TRUE)]
deep_freeze(lists, d) ==
    [lists |-> CopiedLists(lists, d, TRUE), dict |-> CopiedDict(lists, d, TRUE)]

\* RDPSecurityPolicy.__init__ on the dict at position 1: normalized_policy
\* holds list(...) copies, the expressions are compiled, and _policy is the
\* frozen copy or normalized_policy itself.
ConstructedPolicy(file, freeze) ==
    LET lists0 == << Cell(file.allowedHostnames, FALSE), Cell(file.allowedIpv4Cidrs, FALSE),
                     Cell(file.allowedDestinationRegex, FALSE) >>
        policy == Dict(1, 2, 3, FALSE)
        lists1 == CopiedLists(lists0, policy, FALSE)
        normalized_policy == CopiedDict(lists0, policy, FALSE)
        frozen == deep_freeze(lists1, normalized_policy)
    IN  [lists |-> IF freeze THEN frozen.lists ELSE lists1,
         dicts |-> IF freeze THEN <<policy, normalized_policy, frozen.dict>>
                   ELSE <<policy, normalized_policy>>,
         policy |-> IF freeze THEN 3 ELSE 2,
         compiled |-> CompiledOf(file.allowedDestinationRegex)]

\* get_policy: dict(self._policy) of a MappingProxyType, which binds the
\* keys to the policy's own tuples, and copy.deepcopy otherwise.
get_policy(o) ==
    LET d == o.dicts[o.policy]
    IN  IF d.proxy
        THEN [lists |-> o.lists, dict |-> [d EXCEPT !.proxy = FALSE]]
        ELSE [lists |-> CopiedLists(o.lists, d, FALSE), dict |-> CopiedDict(o.lists, d, FALSE)]

\* What validate reads: the rule lists of _policy and _compiled_regexes.
PolicyView(o) ==
    LET d == o.dicts[o.policy]
    IN  [allowedHostnames |-> ItemsAt(o.lists, d.allowedHostnames),
         allowedIpv4Cidrs |-> ItemsAt(o.lists, d.allowedIpv4Cidrs),
         allowedDestinationRegex |-> ItemsAt(o.lists, d.allowedDestinationRegex),
         compiled_regexes |-> o.compiled]

\* returned: the dict get_policy gave (0: not called); original: the rules
\* at construction; changes: attempts to change the objects since then.
NoObjects ==
    [lists |-> <<>>, dicts |-> <<>>, policy |-> 0, compiled |-> <<>>, returned |-> 0,
     original |-> RDPSecurityPolicy(<<>>, <<>>, <<>>), changes |-> 0]

\* os.environ.get('RDP_MAX_SESSIONS', ''): the empty string when unset.
Unset == <<"unset">>
EnvGet(setting) == IF setting = Unset THEN <<>> ELSE setting

\* _init_session_registry: the count handed to rdp_set_max_sessions.
init_session_registry_NoCeiling(setting) == IF EnvGet(setting) = <<>> \/ PyInt(EnvGet(setting)).res = "raise" THEN default_max ELSE IF PyInt(EnvGet(setting)).value < min_max THEN min_max ELSE PyInt(EnvGet(setting)).value
init_session_registry(setting) ==
    LET max_sessions_str == EnvGet(setting)
        max_sessions == PyInt(max_sessions_str)
    IN  IF max_sessions_str # <<>>
        THEN IF max_sessions.res = "raise" THEN default_max
             ELSE IF max_sessions.value < min_max THEN min_max
             ELSE IF max_sessions.value > max_max THEN max_max
             ELSE max_sessions.value
        ELSE default_max

Idle == <<"idle", 0>>
HandlerTask == <<"handler", 0>>
FrameTask(b) == <<"frame", b>>
AudioTask(b) == <<"audio", b>>

\* A task may take a step when no other task is between suspension points.
CanRun(task) == cpu = Idle \/ cpu = task

\* An entry of the transport log: the sender (bridge b, 0 for handle_client),
\* the stream, the drained event or Opus frame it was built from, the message.
GfxEntry(b, src, m) == [b |-> b, ch |-> "gfx", src |-> src, m |-> m, reason |-> NoReason]
AudioEntry(b, src, m) == [b |-> b, ch |-> "audio", src |-> src, m |-> m, reason |-> NoReason]
JsonEntry(b, type, reason) ==
    [b |-> b, ch |-> "json", src |-> 0, m |-> Msg(type, <<>>, <<>>), reason |-> reason]

\* The task has returned ("done"), was ended by a CancelledError it did not
\* catch ("cancelled"), or never existed.
FrameTaskEnded(b) == fpc[b] \in {"none", "done", "cancelled"}
\* The audio task taken for ended without looking at it.
AudioTaskEnded_NotAwaited(b) == TRUE

AudioTaskEnded(b) == apc[b] \in {"none", "done"}

\* The struct the frame loop filled last with rdp_gfx_get_event.
gfx_event(b) == drained[b][Len(drained[b])]

InitConnection ==
    /\ ws = "open"
    /\ sent = <<>>
    /\ closeCalls = <<>>
    /\ cpu = Idle
    /\ hpc = "recv"
    /\ hctx = "msg"
    /\ rdp_bridge = 0
    /\ created = 0
    /\ running = [b \in Bridges |-> FALSE]
    /\ session = [b \in Bridges |-> FALSE]
    /\ handle = [b \in Bridges |-> "none"]
    /\ fpc = [b \in Bridges |-> "none"]
    /\ fcancel = [b \in Bridges |-> FALSE]
    /\ apc = [b \in Bridges |-> "none"]
    /\ acancel = [b \in Bridges |-> FALSE]
    /\ queue = [b \in Bridges |-> <<>>]
    /\ produced = 0
    /\ events_sent = [b \in Bridges |-> 0]
    /\ frame_completed = [b \in Bridges |-> FALSE]
    /\ current_frame_id = [b \in Bridges |-> 0]
    /\ disconnect_reason = [b \in Bridges |-> NoReason]
    /\ audioBuf = [b \in Bridges |-> <<>>]
    /\ audioProduced = 0
    /\ frames_this_batch = [b \in Bridges |-> 0]
    /\ drained = [b \in Bridges |-> <<>>]
    /\ freeCount = [b \in Bridges |-> <<>>]
    /\ cycleSent = [b \in Bridges |-> <<>>]
    /\ pollFailed = [b \in Bridges |-> FALSE]
    /\ worker = [b \in Bridges |-> "idle"]
    /\ sendFailed = [b \in Bridges |-> FALSE]
    /\ inbound = <<>>
    /\ nativeAcks = <<>>
    /\ nativeCalls = <<>>
    /\ resizes = <<>>
    /\ config = [b \in Bridges |-> NoConfig]
    /\ global_security_policy = NoPolicy
    /\ verdicts = <<>>
    /\ codec = NoCodec
    /\ monitor = [b \in Bridges |-> MonitorStart]
    /\ audioHist = [b \in Bridges |-> NoAudioHist]
    /\ membership = NoMembership
    /\ registry = NoRegistry
    /\ objects = NoObjects

\* A deployment without a policy file.
Init == InitConnection /\ policyFile = NoPolicyFile

(***************************************************************************)
(* The frame loop, RDPBridge._stream_frames.  Its suspension points are    *)
(* "start" (task created, not yet run), "poll" (run_in_executor), "send"   *)
(* (websocket.send of a graphics message), "yield" (asyncio.sleep(0)),     *)
(* "exc_sleep" (the sleep of the except-Exception handler), "notify"       *)
(* (websocket.send of the notification) and "close_wait"                   *)
(* (websocket.close); "drain" is the inner while loop, which runs without  *)
(* suspending.  A websocket.send writes the message when it is called and  *)
(* may then suspend the caller until the write buffer has drained.         *)
(***************************************************************************)
CountOf(fld, seq) == Cardinality({i \in DOMAIN seq : seq[i] = fld})

\* Code after the while loop: notify the client when a reason was captured.
PostLoop(b, reason) ==
    /\ cpu' = Idle
    /\ IF reason # NoReason /\ ws = "open"
       THEN /\ sent' = Append(sent, JsonEntry(b, "disconnected", reason))
            /\ fpc' = [fpc EXCEPT ![b] = "notify"]
       ELSE \* nothing to say, or send raised and the exception was logged
            /\ fpc' = [fpc EXCEPT ![b] = "done"]
            /\ UNCHANGED sent

\* "while self.running:" followed by the submission of rdp_poll to the executor.
FrameLoopTop(b) ==
    /\ fpc[b] \in {"start", "yield", "exc_sleep"}
    /\ ~fcancel[b]
    /\ cpu = Idle
    /\ IF running[b]
       THEN /\ fpc' = [fpc EXCEPT ![b] = "poll"]
            /\ worker' = [worker EXCEPT ![b] = "polling"]
            /\ cycleSent' = [cycleSent EXCEPT ![b] = <<>>]
            /\ UNCHANGED <<sent, cpu>>
       ELSE /\ PostLoop(b, disconnect_reason[b])
            /\ UNCHANGED <<cycleSent, worker>>
    /\ UNCHANGED <<ws, closeCalls, handlerVars, bridgeVars, fcancel, events_sent,
                   frame_completed, current_frame_id, disconnect_reason, drained, freeCount,
                   pollFailed, audioVars, nativeVars>>
    /\ UNCHANGED <<sendFailed, inboundVars, policyVars, config, pureVars>>

\* rdp_poll returned an error: capture the reason, clear running, break.
FramePollError(b) ==
    /\ fpc[b] = "poll"
    /\ ~fcancel[b]
    /\ cpu = Idle
    /\ \E error \in NativeErrors :
          LET reason == IF error # NoReason THEN error ELSE ConnectionClosedReason
          IN  /\ disconnect_reason' = [disconnect_reason EXCEPT ![b] = reason]
              /\ PostLoop(b, reason)
    /\ running' = [running EXCEPT ![b] = FALSE]
    /\ pollFailed' = [pollFailed EXCEPT ![b] = TRUE]
    /\ worker' = [worker EXCEPT ![b] = "idle"]
    /\ UNCHANGED <<ws, closeCalls, handlerVars, session, handle, fcancel, events_sent,
                   frame_completed, current_frame_id, drained, freeCount, cycleSent,
                   audioVars, nativeVars>>
    /\ UNCHANGED <<sendFailed, inboundVars, policyVars, config, pureVars>>

\* rdp_poll returned without error: start draining the event queue.
FramePollOk_FrameStaysCompleted(b) == fpc[b] = "poll" /\ ~fcancel[b] /\ cpu = Idle /\ events_sent' = [events_sent EXCEPT ![b] = 0] /\ fpc' = [fpc EXCEPT ![b] = "drain"] /\ worker' = [worker EXCEPT ![b] = "idle"] /\ cpu' = FrameTask(b) /\ UNCHANGED <<transportVars, handlerVars, bridgeVars, fcancel, frame_completed, current_frame_id, disconnect_reason, drained, freeCount, cycleSent, pollFailed, audioVars, nativeVars, sendFailed, inboundVars, policyVars, config, pureVars>>
FramePollOk(b) ==
    /\ fpc[b] = "poll"
    /\ ~fcancel[b]
    /\ cpu = Idle
    /\ events_sent' = [events_sent EXCEPT ![b] = 0]
    /\ frame_completed' = [frame_completed EXCEPT ![b] = FALSE]
    /\ fpc' = [fpc EXCEPT ![b] = "drain"]
    /\ worker' = [worker EXCEPT ![b] = "idle"]
    /\ cpu' = FrameTask(b)
    /\ UNCHANGED <<transportVars, handlerVars, bridgeVars, fcancel, current_frame_id,
                   disconnect_reason, drained, freeCount, cycleSent, pollFailed, audioVars,
                   nativeVars>>
    /\ UNCHANGED <<sendFailed, inboundVars, policyVars, config, pureVars>>

\* The boundary tracking without the END_FRAME branch.
TrackFrameBoundaries_NoEndFrame(b, event) ==
    /\ current_frame_id' =
          IF event.type = RDP_GFX_EVENT_START_FRAME
          THEN [current_frame_id EXCEPT ![b] = event.frame_id]
          ELSE current_frame_id
    /\ UNCHANGED frame_completed

\* "Track frame boundaries" (lines 810-816).
TrackFrameBoundaries(b, event) ==
    /\ current_frame_id' =
          IF event.type = RDP_GFX_EVENT_START_FRAME
          THEN [current_frame_id EXCEPT ![b] = event.frame_id]
          ELSE current_frame_id
    /\ frame_completed' =
          IF event.type = RDP_GFX_EVENT_END_FRAME
          THEN [frame_completed EXCEPT ![b] = TRUE]
          ELSE frame_completed

\* The message of one event written twice.
SendGraphics_Twice(b, n, msg) ==
    sent' = Append(Append(sent, GfxEntry(b, n, msg)), GfxEntry(b, n, msg))

\* "await self.websocket.send(msg)" for the message of the n-th drained event.
SendGraphics(b, n, msg) ==
    sent' = Append(sent, GfxEntry(b, n, msg))

\* The inner while loop takes the next event, builds its message and sends it.
FrameDrainEvent(b) ==
    /\ fpc[b] = "drain"
    /\ cpu = FrameTask(b)
    /\ queue[b] # <<>> /\ ~frame_completed[b]
    /\ LET event == Head(queue[b])
           r == _build_gfx_event_message(event)
           n == Len(drained[b]) + 1
       IN  /\ queue' = [queue EXCEPT ![b] = Tail(queue[b])]
           /\ drained' = [drained EXCEPT ![b] = Append(drained[b], event)]
           /\ freeCount' = [freeCount EXCEPT ![b] =
                  Append(freeCount[b], [fld \in PtrFields |-> CountOf(fld, r.freed)])]
           /\ IF r.res = "msg" /\ ws = "open"
              THEN \* await self.websocket.send(msg)
                   /\ SendGraphics(b, n, r.msg)
                   /\ cycleSent' = [cycleSent EXCEPT ![b] = Append(cycleSent[b], r.msg)]
                   /\ fpc' = [fpc EXCEPT ![b] = "send"]
                   /\ cpu' = Idle
                   /\ UNCHANGED <<current_frame_id, frame_completed, sendFailed>>
              ELSE IF r.res = "none"
              THEN /\ TrackFrameBoundaries(b, event)
                   /\ UNCHANGED <<sent, cycleSent, fpc, cpu, sendFailed>>
              ELSE \* struct.error or ConnectionClosed: except Exception, sleep(0)
                   /\ fpc' = [fpc EXCEPT ![b] = "exc_sleep"]
                   /\ cpu' = Idle
                   /\ sendFailed' = [sendFailed EXCEPT ![b] = @ \/ r.res = "msg"]
                   /\ UNCHANGED <<sent, cycleSent, current_frame_id, frame_completed>>
    /\ UNCHANGED <<ws, closeCalls, handlerVars, bridgeVars, fcancel, events_sent,
                   disconnect_reason, pollFailed, worker, audioVars, produced, audioBuf,
                   audioProduced, inboundVars, policyVars, config, pureVars>>

\* The inner while loop ends: asyncio.sleep(0), with or without "continue".
FrameDrainEnd(b) ==
    /\ fpc[b] = "drain"
    /\ cpu = FrameTask(b)
    /\ ~(queue[b] # <<>> /\ ~frame_completed[b])
    /\ fpc' = [fpc EXCEPT ![b] = "yield"]
    /\ cpu' = Idle
    /\ UNCHANGED <<transportVars, handlerVars, bridgeVars, fcancel, events_sent,
                   frame_completed, current_frame_id, disconnect_reason, drained, freeCount,
                   cycleSent, pollFailed, worker, audioVars, nativeVars>>
    /\ UNCHANGED <<sendFailed, inboundVars, policyVars, config, pureVars>>

\* websocket.send returned: events_sent += 1, then the boundary tracking.
FrameSendDone(b) ==
    /\ fpc[b] = "send"
    /\ ~fcancel[b]
    /\ cpu = Idle
    /\ events_sent' = [events_sent EXCEPT ![b] = events_sent[b] + 1]
    /\ TrackFrameBoundaries(b, gfx_event(b))
    /\ fpc' = [fpc EXCEPT ![b] = "drain"]
    /\ cpu' = FrameTask(b)
    /\ UNCHANGED <<transportVars, handlerVars, bridgeVars, fcancel, disconnect_reason,
                   drained, freeCount, cycleSent, pollFailed, worker, audioVars, nativeVars>>
    /\ UNCHANGED <<sendFailed, inboundVars, policyVars, config, pureVars>>

\* CancelledError is delivered at the suspension point the task is waiting at.
\* Inside the try block it is caught (disconnect_reason = 'Cancelled', break);
\* elsewhere it ends the task.
FrameCancelled(b) ==
    /\ fcancel[b]
    /\ cpu = Idle
    /\ fpc[b] \in {"start", "poll", "send", "yield", "exc_sleep", "notify", "close_wait"}
    /\ fcancel' = [fcancel EXCEPT ![b] = FALSE]
    /\ IF fpc[b] \in {"poll", "send", "yield"}
       THEN /\ disconnect_reason' = [disconnect_reason EXCEPT ![b] = CancelledReason]
            /\ PostLoop(b, CancelledReason)
       ELSE /\ fpc' = [fpc EXCEPT ![b] = "cancelled"]
            /\ UNCHANGED <<disconnect_reason, sent, cpu>>
    /\ UNCHANGED <<ws, closeCalls, handlerVars, bridgeVars, events_sent,
                   frame_completed, current_frame_id, drained, freeCount, cycleSent,
                   pollFailed, worker, audioVars, nativeVars>>
    /\ UNCHANGED <<sendFailed, inboundVars, policyVars, config, pureVars>>

\* rdp_poll returns on the executor thread after the task that awaited it was
\* cancelled: cancelling the task does not stop the thread.
PollAbandonedReturns(b) ==
    /\ worker[b] = "polling"
    /\ fpc[b] # "poll"
    /\ worker' = [worker EXCEPT ![b] = "idle"]
    /\ UNCHANGED <<transportVars, cpu, handlerVars, bridgeVars, fpc, fcancel, events_sent,
                   frame_completed, current_frame_id, disconnect_reason, drained, freeCount,
                   cycleSent, pollFailed, audioVars, nativeVars>>
    /\ UNCHANGED <<sendFailed, inboundVars, policyVars, config, pureVars>>

\* The notification was sent: websocket.close(1000, disconnect_reason[:120]).
FrameNotifyDone(b) ==
    /\ fpc[b] = "notify"
    /\ ~fcancel[b]
    /\ cpu = Idle
    /\ closeCalls' = Append(closeCalls, [b |-> b, reason |-> Truncate(disconnect_reason[b])])
    /\ ws' = "closed"
    /\ fpc' = [fpc EXCEPT ![b] = "close_wait"]
    /\ UNCHANGED <<sent, cpu, handlerVars, bridgeVars, fcancel, events_sent, frame_completed,
                   current_frame_id, disconnect_reason, drained, freeCount, cycleSent,
                   pollFailed, worker, audioVars, nativeVars>>
    /\ UNCHANGED <<sendFailed, inboundVars, policyVars, config, pureVars>>

\* websocket.close returned: the task ends.
FrameCloseDone(b) ==
    /\ fpc[b] = "close_wait"
    /\ ~fcancel[b]
    /\ cpu = Idle
    /\ fpc' = [fpc EXCEPT ![b] = "done"]
    /\ UNCHANGED <<transportVars, cpu, handlerVars, bridgeVars, fcancel, events_sent,
                   frame_completed, current_frame_id, disconnect_reason, drained, freeCount,
                   cycleSent, pollFailed, worker, audioVars, nativeVars>>
    /\ UNCHANGED <<sendFailed, inboundVars, policyVars, config, pureVars>>

(***************************************************************************)
(* The audio loop, RDPBridge._stream_audio.  Suspension points: "start",   *)
(* "sleep" (the adaptive sleep after an empty poll and the                 *)
(* asyncio.sleep(0) after a batch, both inside the try block), "send"      *)
(* (websocket.send) and "err_sleep" (the back-off sleep of the             *)
(* except-Exception handler); "batch" is the inner while loop.             *)
(***************************************************************************)
\* [OPUS magic][sample_rate u32][channels u16][frame_size u16][data]
OpusMessage(frame) == Msg("OPUS", <<48000, 2, frame[2]>>, <<frame>>)

\* "while self.running:" and the rdp_has_opus_data check.
AudioLoopTop(b) ==
    /\ apc[b] \in {"start", "sleep", "err_sleep"}
    /\ ~acancel[b]
    /\ cpu = Idle
    /\ IF ~running[b]
       THEN /\ apc' = [apc EXCEPT ![b] = "done"]
            /\ UNCHANGED <<frames_this_batch, cpu>>
       ELSE IF audioBuf[b] = <<>>
       THEN /\ apc' = [apc EXCEPT ![b] = "sleep"]
            /\ UNCHANGED <<frames_this_batch, cpu>>
       ELSE /\ apc' = [apc EXCEPT ![b] = "batch"]
            /\ frames_this_batch' = [frames_this_batch EXCEPT ![b] = 0]
            /\ cpu' = AudioTask(b)
    /\ UNCHANGED <<transportVars, handlerVars, bridgeVars, frameVars, acancel, nativeVars>>
    /\ UNCHANGED <<sendFailed, inboundVars, policyVars, config, pureVars>>

\* The batch loop reads one Opus frame and sends it.
AudioBatchFrame(b) ==
    /\ apc[b] = "batch"
    /\ cpu = AudioTask(b)
    /\ audioBuf[b] # <<>> /\ frames_this_batch[b] < max_frames_per_batch
    /\ LET frame == Head(audioBuf[b])
       IN  /\ audioBuf' = [audioBuf EXCEPT ![b] = Tail(audioBuf[b])]
           /\ IF ws = "open"
              THEN /\ sent' = Append(sent, AudioEntry(b, frame[1], OpusMessage(frame)))
                   /\ apc' = [apc EXCEPT ![b] = "send"]
                   /\ UNCHANGED <<sendFailed, inboundVars, policyVars, config, pureVars>>
              ELSE \* ConnectionClosed: except Exception, back-off sleep
                   /\ apc' = [apc EXCEPT ![b] = "err_sleep"]
                   /\ sendFailed' = [sendFailed EXCEPT ![b] = TRUE]
                   /\ UNCHANGED sent
    /\ cpu' = Idle
    /\ UNCHANGED <<ws, closeCalls, handlerVars, bridgeVars, frameVars, acancel,
                   frames_this_batch, queue, produced, audioProduced, inboundVars, policyVars, config, pureVars>>

\* The batch loop ends: asyncio.sleep(0).
AudioBatchEnd(b) ==
    /\ apc[b] = "batch"
    /\ cpu = AudioTask(b)
    /\ ~(audioBuf[b] # <<>> /\ frames_this_batch[b] < max_frames_per_batch)
    /\ apc' = [apc EXCEPT ![b] = "sleep"]
    /\ cpu' = Idle
    /\ UNCHANGED <<transportVars, handlerVars, bridgeVars, frameVars, acancel,
                   frames_this_batch, nativeVars>>
    /\ UNCHANGED <<sendFailed, inboundVars, policyVars, config, pureVars>>

\* websocket.send returned: frames_sent += 1, frames_this_batch += 1.
AudioSendDone(b) ==
    /\ apc[b] = "send"
    /\ ~acancel[b]
    /\ cpu = Idle
    /\ frames_this_batch' = [frames_this_batch EXCEPT ![b] = frames_this_batch[b] + 1]
    /\ apc' = [apc EXCEPT ![b] = "batch"]
    /\ cpu' = AudioTask(b)
    /\ UNCHANGED <<transportVars, handlerVars, bridgeVars, frameVars, acancel, nativeVars>>
    /\ UNCHANGED <<sendFailed, inboundVars, policyVars, config, pureVars>>

\* CancelledError: caught inside the try block (break); in the except
\* handler's sleep and before the first step it ends the task as well.
AudioCancelled(b) ==
    /\ acancel[b]
    /\ cpu = Idle
    /\ apc[b] \in {"start", "sleep", "send", "err_sleep", "err_backoff"}
    /\ acancel' = [acancel EXCEPT ![b] = FALSE]
    /\ apc' = [apc EXCEPT ![b] = "done"]
    /\ UNCHANGED <<transportVars, cpu, handlerVars, bridgeVars, frameVars, frames_this_batch,
                   nativeVars>>
    /\ UNCHANGED <<sendFailed, inboundVars, policyVars, config, pureVars>>

(***************************************************************************)
(* _stream_audio with its health monitoring: the empty-poll counter, the   *)
(* stall flags, the error counter and the delay after an error.  The       *)
(* suspension point "err_sleep" is the 1 ms retry delay and "err_backoff"  *)
(* the 100 ms back-off.                                                    *)
(***************************************************************************)
AudioWaits == {"start", "sleep", "err_sleep", "err_backoff"}

\* The top of an iteration with the session running.
AudioIterates(b) ==
    /\ apc[b] \in AudioWaits
    /\ ~acancel[b]
    /\ cpu = Idle
    /\ running[b]

\* "except Exception": error_count += 1, then the 100 ms back-off from
\* max_errors_before_reset errors on and the 1 ms retry delay before.
AudioError_Fatal(b) == apc' = [apc EXCEPT ![b] = "done"] /\ monitor' = [monitor EXCEPT ![b].error_count = @ + 1] /\ audioHist' = [audioHist EXCEPT ![b].errors = @ + 1] /\ cpu' = Idle
AudioError(b) ==
    /\ monitor' = [monitor EXCEPT ![b].error_count = @ + 1]
    /\ apc' = [apc EXCEPT ![b] =
                  IF monitor[b].error_count + 1 >= max_errors_before_reset
                  THEN "err_backoff" ELSE "err_sleep"]
    /\ audioHist' = [audioHist EXCEPT ![b].errors = @ + 1]
    /\ cpu' = Idle

\* "while self.running" is false: the loop ends.
AudioStopped(b) ==
    /\ apc[b] \in AudioWaits
    /\ ~acancel[b]
    /\ cpu = Idle
    /\ ~running[b]
    /\ apc' = [apc EXCEPT ![b] = "done"]
    /\ UNCHANGED <<transportVars, cpu, handlerVars, bridgeVars, frameVars, acancel,
                   frames_this_batch, nativeVars, sendFailed, inboundVars, policyVars,
                   config, pureVars>>

\* "stall_warning_logged = True" / "stall_diag_logged = True" after the report.
StallFlag_Forgets(logged, reported) == logged
StallFlag(logged, reported) == logged \/ reported

\* rdp_has_opus_data reports no data: count the poll, report a stall, sleep.
AudioPollEmpty(b, maxPolls) ==
    /\ AudioIterates(b)
    /\ audioBuf[b] = <<>>
    /\ monitor[b].consecutive_empty_polls < maxPolls
    /\ LET m == monitor[b]
           polls == m.consecutive_empty_polls + 1
           stalled == m.frames_sent > 0 /\ polls >= max_empty_polls_before_warning
           warns == stalled /\ ~m.stall_warning_logged /\ m.silent
           snaps == stalled /\ ~m.stall_diag_logged
       IN  /\ monitor' = [monitor EXCEPT ![b].consecutive_empty_polls = polls,
                                         ![b].stall_warning_logged = StallFlag(@, warns),
                                         ![b].stall_diag_logged = StallFlag(@, snaps)]
           /\ audioHist' = [audioHist EXCEPT ![b].errors = 0,
                                             ![b].warnings = @ + (IF warns THEN 1 ELSE 0),
                                             ![b].stalls = @ + (IF warns THEN 1 ELSE 0),
                                             ![b].snapshots = @ + (IF snaps THEN 1 ELSE 0)]
    /\ apc' = [apc EXCEPT ![b] = "sleep"]
    /\ UNCHANGED <<transportVars, cpu, handlerVars, bridgeVars, frameVars, acancel,
                   frames_this_batch, nativeVars, sendFailed, inboundVars, policyVars,
                   config, calcVars>>

\* rdp_has_opus_data reports data: the counters and the flags are reset and
\* the batch loop starts.
AudioPollData(b) ==
    /\ AudioIterates(b)
    /\ audioBuf[b] # <<>>
    /\ monitor' = [monitor EXCEPT ![b].consecutive_empty_polls = 0,
                                  ![b].stall_warning_logged = FALSE,
                                  ![b].stall_diag_logged = FALSE,
                                  ![b].error_count = 0]
    /\ audioHist' = [audioHist EXCEPT ![b].warnings = 0, ![b].snapshots = 0,
                                      ![b].burst = 0]
    /\ apc' = [apc EXCEPT ![b] = "batch"]
    /\ frames_this_batch' = [frames_this_batch EXCEPT ![b] = 0]
    /\ cpu' = AudioTask(b)
    /\ UNCHANGED <<transportVars, handlerVars, bridgeVars, frameVars, acancel,
                   nativeVars, sendFailed, inboundVars, policyVars, config, calcVars>>

\* rdp_has_opus_data raises.
AudioPollRaises(b, maxErrors) ==
    /\ AudioIterates(b)
    /\ audioHist[b].errors < maxErrors
    /\ AudioError(b)
    /\ UNCHANGED <<transportVars, handlerVars, bridgeVars, frameVars, acancel,
                   frames_this_batch, nativeVars, sendFailed, inboundVars, policyVars,
                   config, calcVars>>

\* "while rdp_has_opus_data(...) and frames_this_batch < max_frames_per_batch"
BatchContinues_Unbounded(b) == audioBuf[b] # <<>>
BatchContinues(b) == audioBuf[b] # <<>> /\ frames_this_batch[b] < max_frames_per_batch

\* The batch loop ends: asyncio.sleep(0).
AudioBatchYield(b) ==
    /\ apc[b] = "batch"
    /\ cpu = AudioTask(b)
    /\ ~BatchContinues(b)
    /\ apc' = [apc EXCEPT ![b] = "sleep"]
    /\ cpu' = Idle
    /\ UNCHANGED <<transportVars, handlerVars, bridgeVars, frameVars, acancel,
                   frames_this_batch, nativeVars, sendFailed, inboundVars, policyVars,
                   config, pureVars>>

\* The batch loop reads one Opus frame and sends it; the send raises on a
\* closed transport.
AudioReadFrame(b) ==
    /\ apc[b] = "batch"
    /\ cpu = AudioTask(b)
    /\ BatchContinues(b)
    /\ LET frame == Head(audioBuf[b])
       IN  /\ audioBuf' = [audioBuf EXCEPT ![b] = Tail(audioBuf[b])]
           /\ IF ws = "open"
              THEN /\ sent' = Append(sent, AudioEntry(b, frame[1], OpusMessage(frame)))
                   /\ apc' = [apc EXCEPT ![b] = "send"]
                   /\ cpu' = Idle
                   /\ audioHist' = [audioHist EXCEPT ![b].burst = @ + 1]
                   /\ UNCHANGED <<sendFailed, monitor>>
              ELSE /\ AudioError(b)
                   /\ sendFailed' = [sendFailed EXCEPT ![b] = TRUE]
                   /\ UNCHANGED sent
    /\ UNCHANGED <<ws, closeCalls, handlerVars, bridgeVars, frameVars, acancel,
                   frames_this_batch, queue, produced, audioProduced, inboundVars,
                   policyVars, config, calcVars>>

\* rdp_get_opus_format or rdp_get_opus_frame raises while data is available.
AudioReadRaises(b, maxErrors) ==
    /\ apc[b] = "batch"
    /\ cpu = AudioTask(b)
    /\ BatchContinues(b)
    /\ audioHist[b].errors < maxErrors
    /\ AudioError(b)
    /\ UNCHANGED <<transportVars, handlerVars, bridgeVars, frameVars, acancel,
                   frames_this_batch, nativeVars, sendFailed, inboundVars, policyVars,
                   config, calcVars>>

\* websocket.send returned: frames_sent += 1, frames_this_batch += 1,
\* last_frame_time = now.
AudioFrameSent(b) ==
    /\ apc[b] = "send"
    /\ ~acancel[b]
    /\ cpu = Idle
    /\ frames_this_batch' = [frames_this_batch EXCEPT ![b] = frames_this_batch[b] + 1]
    /\ monitor' = [monitor EXCEPT ![b].frames_sent = @ + 1, ![b].silent = FALSE]
    /\ audioHist' = [audioHist EXCEPT ![b].errors = 0]
    /\ apc' = [apc EXCEPT ![b] = "batch"]
    /\ cpu' = AudioTask(b)
    /\ UNCHANGED <<transportVars, handlerVars, bridgeVars, frameVars, acancel, nativeVars,
                   sendFailed, inboundVars, policyVars, config, calcVars>>

\* The clock passes last_frame_time + 2.0.
TimePasses(b) ==
    /\ apc[b] \notin {"none", "done"}
    /\ ~monitor[b].silent
    /\ monitor' = [monitor EXCEPT ![b].silent = TRUE]
    /\ UNCHANGED <<transportVars, cpu, handlerVars, bridgeVars, frameVars, audioVars,
                   nativeVars, sendFailed, inboundVars, policyVars, config, calcVars, audioHist>>

(***************************************************************************)
(* The Session Handle's native side and the peer.                          *)
(***************************************************************************)
\* The engine queues a GFX event.
QueueEvent(b, pool, max) ==
    /\ handle[b] = "connected"
    /\ produced < max
    /\ \E event \in pool :
          queue' = [queue EXCEPT ![b] = Append(queue[b], event)]
    /\ produced' = produced + 1
    /\ UNCHANGED <<transportVars, cpu, handlerVars, bridgeVars, frameVars, audioVars,
                   audioBuf, audioProduced>>
    /\ UNCHANGED <<sendFailed, inboundVars, policyVars, config, pureVars>>

NativeQueueEvent(b) == QueueEvent(b, EventPool, MaxEvents)

\* The engine buffers an encoded Opus frame.
BufferOpus(b, max) ==
    /\ handle[b] = "connected"
    /\ audioProduced < max
    /\ audioBuf' = [audioBuf EXCEPT ![b] = Append(audioBuf[b], <<audioProduced + 1, 120>>)]
    /\ audioProduced' = audioProduced + 1
    /\ UNCHANGED <<transportVars, cpu, handlerVars, bridgeVars, frameVars, audioVars,
                   queue, produced>>
    /\ UNCHANGED <<sendFailed, inboundVars, policyVars, config, pureVars>>

NativeQueueAudio(b) == BufferOpus(b, MaxAudio)

\* The browser closes the connection, or the connection breaks.
PeerClose ==
    /\ ws = "open"
    /\ ws' = "closed"
    /\ UNCHANGED <<sent, closeCalls, cpu, handlerVars, bridgeVars, frameVars, audioVars,
                   nativeVars>>
    /\ UNCHANGED <<sendFailed, inboundVars, policyVars, config, pureVars>>

(***************************************************************************)
(* handle_client (server.py) with RDPBridge.connect and                    *)
(* RDPBridge.disconnect inlined.  Suspension points: "recv" (waiting for   *)
(* the next client message), "connecting" (run_in_executor(rdp_connect)),  *)
(* "d_frame" / "d_audio" (disconnect() awaiting the frame / audio task);   *)
(* "finally" is the entry of the finally block, "done" the return.         *)
(***************************************************************************)
\* await websocket.send(json) of the handler, then goto next; a send on a closed
\* transport raises, the handler's own error reply raises again, and control
\* reaches the finally block.
HandlerSend(type, next) ==
    IF ws = "open"
    THEN /\ sent' = Append(sent, JsonEntry(0, type, NoReason))
         /\ hpc' = next
    ELSE /\ hpc' = "finally"
         /\ UNCHANGED sent

\* The reply of handle_client to the n-th binary message.
ReplyEntry(n, type) ==
    [b |-> 0, ch |-> "json", src |-> n, m |-> Msg(type, <<>>, <<>>), reason |-> NoReason]

\* RDPBridge.send_frame_ack: rdp_gfx_send_frame_ack on the Session Handle when
\* the session is set.  Nothing in server.py or rdp_bridge.py calls it.
send_frame_ack(b, frame_id, total_frames_decoded, queue_depth) ==
    IF session[b]
    THEN nativeAcks' = Append(nativeAcks, [b |-> b, frame_id |-> frame_id,
                                           total_frames_decoded |-> total_frames_decoded,
                                           queue_depth |-> queue_depth])
    ELSE UNCHANGED nativeAcks

\* parse_backpressure is imported by server.py; wire_format.py does not hold
\* it.  Layout of the message catalog: magic, queueDepth:u32.
parse_backpressure(data) ==
    IF Len(data) < 8 THEN ParseNone
    ELSE ParseResult("ok", Zero32, Zero32, unpack_u32(data, 5))

\* handle_binary_message: the branch taken, what the parser returned, and
\* whether an exception leaves the function.  RDPBridge has no attribute
\* ack_h264_frame: the call in the frameAck branch raises AttributeError.
BinaryOutcome(family, parsed, raises) ==
    [family |-> family, parsed |-> parsed, raises |-> raises]

handle_binary_message(data, bridge) ==
    IF Len(data) < 4 THEN BinaryOutcome("short", ParseNone, FALSE)
    ELSE IF get_message_type(data) = "frameAck"
    THEN LET parsed == parse_frame_ack(data)
         IN  BinaryOutcome("frameAck", parsed,
                           parsed.res = "raise" \/ (parsed.res = "ok" /\ bridge # 0))
    ELSE IF get_message_type(data) = "backpressure"
    THEN LET parsed == parse_backpressure(data)
         IN  BinaryOutcome("backpressure", parsed, parsed.res = "raise")
    ELSE BinaryOutcome("unknown", ParseNone, FALSE)

\* A binary message arrives: handle_binary_message, then "continue"; an
\* exception is answered with an 'error' reply by the except-Exception
\* handler of the message loop.
ReceiveBinary(data) ==
    /\ hpc = "recv"
    /\ ws = "open"
    /\ cpu = Idle
    /\ LET outcome == handle_binary_message(data, rdp_bridge)
           n == Len(inbound) + 1
       IN  /\ inbound' = Append(inbound,
                  [data |-> data, bridge |-> rdp_bridge,
                   active |-> rdp_bridge # 0 /\ session[rdp_bridge] /\ running[rdp_bridge],
                   family |-> outcome.family, parsed |-> outcome.parsed])
           /\ IF outcome.raises
              THEN sent' = Append(sent, ReplyEntry(n, "error"))
              ELSE UNCHANGED sent
    /\ UNCHANGED <<ws, closeCalls, cpu, handlerVars, bridgeVars, frameVars, audioVars,
                   nativeVars, sendFailed, nativeAcks, nativeCalls, resizes, policyVars,
                   config, pureVars>>

\* 'connect': a new RDPBridge replaces the local rdp_bridge; connect() creates
\* the native session and awaits rdp_connect on the executor.
HandleConnectTo(host, port) ==
    /\ hpc = "recv"
    /\ ws = "open"
    /\ cpu = Idle
    /\ created < Cardinality(Bridges)
    /\ LET b == created + 1
       IN  /\ created' = b
           /\ rdp_bridge' = b
           /\ config' = [config EXCEPT ![b] = RDPConfig(host, port)]
           /\ \/ \* the library cannot be loaded, or rdp_create returns NULL
                 /\ HandlerSend("error", "recv")
                 /\ UNCHANGED <<session, handle>>
              \/ /\ session' = [session EXCEPT ![b] = TRUE]
                 /\ handle' = [handle EXCEPT ![b] = "created"]
                 /\ hpc' = "connecting"
                 /\ UNCHANGED sent
    /\ UNCHANGED <<ws, closeCalls, cpu, hctx, running, frameVars, audioVars, nativeVars>>
    /\ UNCHANGED <<sendFailed, inboundVars, policyVars, pureVars>>

\* A 'connect' request for the default host, without a port (3389).
HandleConnect == HandleConnectTo(DefaultHost, DefaultPort)

\* get_security_policy(): the global policy, loaded from the file on first use.
get_security_policy ==
    IF global_security_policy.loaded THEN global_security_policy.policy
    ELSE load_security_policy_from_file(policyFile).policy

\* get_security_policy().validate(host, port)
ValidateDestination(host, port) ==
    /\ global_security_policy' = LoadedPolicy(get_security_policy)
    /\ verdicts' = Append(verdicts, [host |-> host, port |-> port,
                                     policy |-> get_security_policy,
                                     result |-> validate(get_security_policy, host, port)])
    /\ UNCHANGED <<transportVars, cpu, handlerVars, bridgeVars, frameVars, audioVars,
                   nativeVars, sendFailed, inboundVars, policyFile, config, pureVars>>

\* The first 'connect' message of the connection / a later one.
HandleFirstConnect == created = 0 /\ HandleConnect
HandleReconnect == created > 0 /\ HandleConnect

\* rdp_connect returned 0: running = True, start the two tasks, reply 'connected'.
HandleConnectOk ==
    /\ hpc = "connecting"
    /\ cpu = Idle
    /\ handle' = [handle EXCEPT ![rdp_bridge] = "connected"]
    /\ running' = [running EXCEPT ![rdp_bridge] = TRUE]
    /\ fpc' = [fpc EXCEPT ![rdp_bridge] = "start"]
    /\ apc' = [apc EXCEPT ![rdp_bridge] = "start"]
    /\ HandlerSend("connected", "recv")
    /\ UNCHANGED <<ws, closeCalls, cpu, hctx, rdp_bridge, created, session, fcancel,
                   events_sent, frame_completed, current_frame_id, disconnect_reason,
                   drained, freeCount, cycleSent, pollFailed, worker, acancel, frames_this_batch,
                   nativeVars>>
    /\ UNCHANGED <<sendFailed, inboundVars, policyVars, config, pureVars>>

\* A native call on the Session Handle of bridge b, with the state the handle
\* is in when the call is made.
NativeCall(b, fn, args, result) ==
    [b |-> b, fn |-> fn, on |-> handle[b], args |-> args, result |-> result]

\* rdp_connect failed: rdp_destroy, _session = None, reply 'error'.
HandleConnectFailed ==
    /\ hpc = "connecting"
    /\ cpu = Idle
    /\ nativeCalls' = Append(nativeCalls, NativeCall(rdp_bridge, "rdp_destroy", <<>>, 0))
    /\ handle' = [handle EXCEPT ![rdp_bridge] = "destroyed"]
    /\ session' = [session EXCEPT ![rdp_bridge] = FALSE]
    /\ HandlerSend("error", "recv")
    /\ UNCHANGED <<ws, closeCalls, cpu, hctx, rdp_bridge, created, running, frameVars,
                   audioVars, nativeVars>>
    /\ UNCHANGED <<sendFailed, inbound, nativeAcks, resizes, policyVars, config, pureVars>>

\* RDPBridge.disconnect, first part: running = False, cancel the frame task
\* and await it.  Awaiting a task that has ended does not suspend.
DisconnectBegin(b, ctx) ==
    /\ hctx' = ctx
    /\ running' = [running EXCEPT ![b] = FALSE]
    /\ fcancel' = [fcancel EXCEPT ![b] = ~FrameTaskEnded(b)]
    /\ hpc' = "d_frame"
    /\ cpu' = IF FrameTaskEnded(b) THEN HandlerTask ELSE Idle

\* 'disconnect' message.
HandleDisconnect ==
    /\ hpc = "recv"
    /\ ws = "open"
    /\ cpu = Idle
    /\ IF rdp_bridge # 0
       THEN /\ DisconnectBegin(rdp_bridge, "msg")
            /\ UNCHANGED sent
       ELSE /\ HandlerSend("disconnected", "finally")
            /\ UNCHANGED <<hctx, running, fcancel, cpu>>
    /\ UNCHANGED <<ws, closeCalls, rdp_bridge, created, session, handle, fpc, events_sent,
                   frame_completed, current_frame_id, disconnect_reason, drained, freeCount,
                   cycleSent, pollFailed, worker, audioVars, nativeVars>>
    /\ UNCHANGED <<sendFailed, inboundVars, policyVars, config, pureVars>>

\* The message iterator ends because the connection is closed.
HandleConnectionClosed ==
    /\ hpc = "recv"
    /\ ws = "closed"
    /\ cpu = Idle
    /\ hpc' = "finally"
    /\ UNCHANGED <<transportVars, cpu, hctx, rdp_bridge, created, bridgeVars, frameVars,
                   audioVars, nativeVars>>
    /\ UNCHANGED <<sendFailed, inboundVars, policyVars, config, pureVars>>

\* finally: "if rdp_bridge: await rdp_bridge.disconnect()".  When the handler
\* returns, the server closes the connection.
HandleFinally ==
    /\ hpc = "finally"
    /\ cpu = Idle
    /\ IF rdp_bridge # 0
       THEN /\ DisconnectBegin(rdp_bridge, "finally")
            /\ UNCHANGED ws
       ELSE /\ hpc' = "done"
            /\ ws' = "closed"
            /\ UNCHANGED <<hctx, running, fcancel, cpu>>
    /\ UNCHANGED <<sent, closeCalls, rdp_bridge, created, session, handle, fpc, events_sent,
                   frame_completed, current_frame_id, disconnect_reason, drained, freeCount,
                   cycleSent, pollFailed, worker, audioVars, nativeVars>>
    /\ UNCHANGED <<sendFailed, inboundVars, policyVars, config, pureVars>>

\* disconnect(): the frame task has ended; cancel the audio task and await it.
DisconnectAwaitFrame ==
    /\ hpc = "d_frame"
    /\ CanRun(HandlerTask)
    /\ FrameTaskEnded(rdp_bridge)
    /\ acancel' = [acancel EXCEPT ![rdp_bridge] = ~AudioTaskEnded(rdp_bridge)]
    /\ hpc' = "d_audio"
    /\ cpu' = IF AudioTaskEnded(rdp_bridge) THEN HandlerTask ELSE Idle
    /\ UNCHANGED <<transportVars, hctx, rdp_bridge, created, bridgeVars, frameVars, apc,
                   frames_this_batch, nativeVars>>
    /\ UNCHANGED <<sendFailed, inboundVars, policyVars, config, pureVars>>

\* disconnect(): the audio task has ended; rdp_disconnect and rdp_destroy the
\* session, then return to the caller.
DisconnectAwaitAudio_KeepsSession ==
    /\ hpc = "d_audio"
    /\ CanRun(HandlerTask)
    /\ AudioTaskEnded(rdp_bridge)
    /\ IF session[rdp_bridge]
       THEN /\ nativeCalls' = nativeCalls \o
                    << NativeCall(rdp_bridge, "rdp_disconnect", <<>>, 0),
                       NativeCall(rdp_bridge, "rdp_destroy", <<>>, 0) >>
            /\ handle' = [handle EXCEPT ![rdp_bridge] = "destroyed"]
            /\ UNCHANGED session
       ELSE UNCHANGED <<handle, session, nativeCalls>>
    /\ IF hctx = "msg"
       THEN /\ HandlerSend("disconnected", "finally")
            /\ UNCHANGED ws
       ELSE /\ hpc' = "done"
            /\ ws' = "closed"
            /\ UNCHANGED sent
    /\ cpu' = Idle
    /\ UNCHANGED <<closeCalls, hctx, rdp_bridge, created, running, frameVars, audioVars,
                   nativeVars>>
    /\ UNCHANGED <<sendFailed, inbound, nativeAcks, resizes, policyVars, config, pureVars>>

DisconnectAwaitAudio ==
    /\ hpc = "d_audio"
    /\ CanRun(HandlerTask)
    /\ AudioTaskEnded(rdp_bridge)
    /\ IF session[rdp_bridge]
       THEN /\ nativeCalls' = nativeCalls \o
                    << NativeCall(rdp_bridge, "rdp_disconnect", <<>>, 0),
                       NativeCall(rdp_bridge, "rdp_destroy", <<>>, 0) >>
            /\ handle' = [handle EXCEPT ![rdp_bridge] = "destroyed"]
            /\ session' = [session EXCEPT ![rdp_bridge] = FALSE]
       ELSE UNCHANGED <<handle, session, nativeCalls>>
    /\ IF hctx = "msg"
       THEN /\ HandlerSend("disconnected", "finally")
            /\ UNCHANGED ws
       ELSE /\ hpc' = "done"
            /\ ws' = "closed"
            /\ UNCHANGED sent
    /\ cpu' = Idle
    /\ UNCHANGED <<closeCalls, hctx, rdp_bridge, created, running, frameVars, audioVars,
                   nativeVars>>
    /\ UNCHANGED <<sendFailed, inbound, nativeAcks, resizes, policyVars, config, pureVars>>

\* RDPBridge.send_mouse_event and send_key_event: nothing is done unless the
\* session is running and _session is set; otherwise one native input call.
InputCalls == { i \in DOMAIN nativeCalls : nativeCalls[i].fn \in {"rdp_send_mouse", "rdp_send_keyboard"} }
send_input_event(b, fn) ==
    IF running[b] /\ session[b]
    THEN nativeCalls' = Append(nativeCalls, NativeCall(b, fn, <<>>, 0))
    ELSE UNCHANGED nativeCalls
send_mouse_event(b) == send_input_event(b, "rdp_send_mouse")
send_key_event(b) == send_input_event(b, "rdp_send_keyboard")

\* 'mouse' and 'key' messages: "if rdp_bridge: await rdp_bridge.send_..._event".
HandleInput(fn) ==
    /\ hpc = "recv"
    /\ ws = "open"
    /\ cpu = Idle
    /\ rdp_bridge # 0
    /\ Cardinality(InputCalls) < MaxInputs
    /\ send_input_event(rdp_bridge, fn)
    /\ UNCHANGED <<transportVars, cpu, handlerVars, bridgeVars, frameVars, audioVars, nativeVars,
                   sendFailed, inbound, nativeAcks, resizes, policyVars, config, pureVars>>
HandleMouse == HandleInput("rdp_send_mouse")
HandleKey == HandleInput("rdp_send_keyboard")

\* RDPBridge.resize(width, height) when rdp_resize would return result: a
\* request for the recorded size is skipped with True; otherwise the size is
\* recorded, then the session is tested and rdp_resize is called.
ResizeSkipped(b, width, height) == config[b].width = width /\ config[b].height = height
ResizeReturns(b, width, height, result) ==
    IF ResizeSkipped(b, width, height) THEN TRUE
    ELSE IF ~session[b] THEN FALSE
    ELSE result = 0
resize(b, width, height, result) ==
    /\ config' = IF ResizeSkipped(b, width, height) THEN config
                 ELSE [config EXCEPT ![b].width = width, ![b].height = height]
    /\ nativeCalls' = IF ~ResizeSkipped(b, width, height) /\ session[b]
                      THEN Append(nativeCalls, NativeCall(b, "rdp_resize", <<width, height>>, result))
                      ELSE nativeCalls
    /\ resizes' = Append(resizes, [b |-> b, width |-> width, height |-> height,
                                   skipped |-> ResizeSkipped(b, width, height),
                                   returned |-> ResizeReturns(b, width, height, result)])

\* 'resize' message: reply 'resize' when resize returned True, else 'error'.
ResizeSizes == { <<DefaultWidth, DefaultHeight>>, <<800, 600>> }
ResizeResults == { 0, -1 }
HandleResize ==
    /\ hpc = "recv"
    /\ ws = "open"
    /\ cpu = Idle
    /\ rdp_bridge # 0
    /\ Len(resizes) < MaxResizes
    /\ \E size \in ResizeSizes : \E result \in ResizeResults :
          /\ resize(rdp_bridge, size[1], size[2], result)
          /\ HandlerSend(IF ResizeReturns(rdp_bridge, size[1], size[2], result)
                         THEN "resize" ELSE "error", "recv")
    /\ UNCHANGED <<ws, closeCalls, cpu, hctx, rdp_bridge, created, bridgeVars, frameVars,
                   audioVars, nativeVars, sendFailed, inbound, nativeAcks, policyVars, pureVars>>

\* The desktop size of the native session of bridge b: the size rdp_create
\* was given, or the size of the last rdp_resize that reported success.
ResizedOk(b) == { i \in DOMAIN nativeCalls : nativeCalls[i].b = b /\ nativeCalls[i].fn = "rdp_resize" /\ nativeCalls[i].result = 0 }
NativeSize(b) ==
    IF ResizedOk(b) = {} THEN <<DefaultWidth, DefaultHeight>>
    ELSE nativeCalls[CHOOSE i \in ResizedOk(b) : \A j \in ResizedOk(b) : j <= i].args

(***************************************************************************)
(* Specifications.                                                         *)
(***************************************************************************)
FrameLoop(b) ==
    \/ FrameLoopTop(b)
    \/ FramePollError(b)
    \/ FramePollOk(b)
    \/ FrameDrainEvent(b)
    \/ FrameDrainEnd(b)
    \/ FrameSendDone(b)
    \/ FrameCancelled(b)
    \/ FrameNotifyDone(b)
    \/ FrameCloseDone(b)

AudioLoop(b) ==
    \/ AudioLoopTop(b)
    \/ AudioBatchFrame(b)
    \/ AudioBatchEnd(b)
    \/ AudioSendDone(b)
    \/ AudioCancelled(b)

Handler ==
    \/ HandleConnectOk
    \/ HandleConnectFailed
    \/ HandleDisconnect
    \/ HandleConnectionClosed
    \/ HandleFinally
    \/ DisconnectAwaitFrame
    \/ DisconnectAwaitAudio

\* A connection on which the client sends at most one 'connect' message.
Next ==
    \/ HandleFirstConnect
    \/ Handler
    \/ PeerClose
    \/ \E b \in Bridges : FrameLoop(b)
    \/ \E b \in Bridges : AudioLoop(b)
    \/ \E b \in Bridges : NativeQueueEvent(b)
    \/ \E b \in Bridges : NativeQueueAudio(b)

Spec == Init /\ [][Next]_vars

\* Scheduling: the event loop runs every task that is ready, the executor
\* completes every call handed to it, and a closed connection ends the message
\* iterator.  Client messages, the peer and the engine are under no obligation.
HandlerProgress ==
    \/ HandleConnectOk
    \/ HandleConnectFailed
    \/ HandleConnectionClosed
    \/ HandleFinally
    \/ DisconnectAwaitFrame
    \/ DisconnectAwaitAudio

Fairness ==
    /\ WF_vars(HandlerProgress)
    /\ \A b \in Bridges : WF_vars(FrameLoop(b))
    /\ \A b \in Bridges : WF_vars(AudioLoop(b))

\* A connection whose session delivers a burst of events and audio, whose
\* polls succeed, and which ends when the peer goes away.
FramePool ==
    { StartFrameEv(5), EndFrameEv(5), SolidFillEv(5, 1, 640, 480), WebpTileEv(5, 7, 0) }

\* The engine queues one burst of up to MaxQueue events.
NativeQueueBurst(b) ==
    /\ handle[b] = "connected"
    /\ produced = 0
    /\ \E k \in 1..MaxQueue :
          \E burst \in [1..k -> FramePool] :
              /\ queue' = [queue EXCEPT ![b] = queue[b] \o burst]
              /\ produced' = k
    /\ UNCHANGED <<transportVars, cpu, handlerVars, bridgeVars, frameVars, audioVars,
                   audioBuf, audioProduced, sendFailed, inboundVars, policyVars, config, pureVars>>

NextFrames ==
    \/ HandleFirstConnect
    \/ HandleConnectOk
    \/ HandleConnectFailed
    \/ HandleConnectionClosed
    \/ HandleFinally
    \/ DisconnectAwaitFrame
    \/ DisconnectAwaitAudio
    \/ PeerClose
    \/ \E b \in Bridges : FrameLoopTop(b)
    \/ \E b \in Bridges : FramePollOk(b)
    \/ \E b \in Bridges : FrameDrainEvent(b)
    \/ \E b \in Bridges : FrameDrainEnd(b)
    \/ \E b \in Bridges : FrameSendDone(b)
    \/ \E b \in Bridges : FrameCancelled(b)
    \/ \E b \in Bridges : AudioLoop(b)
    \/ \E b \in Bridges : NativeQueueBurst(b)
    \/ \E b \in Bridges : NativeQueueAudio(b)

SpecFrames == Init /\ [][NextFrames]_vars

\* A connection on which the client may send a second 'connect' message; the
\* sessions deliver solid fills and no audio.
ReconnectPool == { SolidFillEv(5, 1, 640, 480) }

NativeQueueFill(b) == QueueEvent(b, ReconnectPool, MaxEvents)

NextReconnect ==
    \/ HandleFirstConnect
    \/ HandleReconnect
    \/ Handler
    \/ PeerClose
    \/ \E b \in Bridges : FrameLoop(b)
    \/ \E b \in Bridges : AudioLoopTop(b)
    \/ \E b \in Bridges : AudioCancelled(b)
    \/ \E b \in Bridges : NativeQueueFill(b)

SpecReconnect == Init /\ [][NextReconnect]_vars

\* A connection with one 'connect' message whose session delivers solid fills
\* and audio, under fair scheduling.
NextTeardown ==
    \/ HandleFirstConnect
    \/ Handler
    \/ PeerClose
    \/ \E b \in Bridges : FrameLoop(b)
    \/ \E b \in Bridges : AudioLoop(b)
    \/ \E b \in Bridges : NativeQueueFill(b)
    \/ \E b \in Bridges : NativeQueueAudio(b)

SpecFair == Init /\ [][NextTeardown]_vars /\ Fairness

\* A connection whose session delivers one burst of events of every variant
\* (well-formed ones, types without a branch in _build_gfx_event_message,
\* empty rectangles and missing payloads) while handle_client waits for the
\* next client message; the peer may go away.
HandledPool ==
    { CreateSurfaceEv(1, 640, 480), DeleteSurfaceEv(1), MapSurfaceEv(1, 0, 0),
      StartFrameEv(5), EndFrameEv(5), SolidFillEv(5, 1, 640, 480),
      SurfaceToSurfaceEv(5, 1, 2, 64, 64), SurfaceToCacheEv(5, 1, 3, 64, 64),
      CacheToSurfaceEv(5, 1, 3), EvictCacheEv(5, 3), ResetGraphicsEv(640, 480),
      CapsConfirmEv(656896, 2), InitSettingsEv(32, 131075), WebpTileEv(5, 7, 100) }

VideoPool ==
    { VideoFrameEv(5, RDP_GFX_CODEC_CLEARCODEC, 8, 200, 0, 0),
      VideoFrameEv(5, RDP_GFX_CODEC_AVC420, 8, 200, 0, 0),
      VideoFrameEv(5, RDP_GFX_CODEC_AVC444, 8, 200, 9, 50),
      VideoFrameEv(5, 0, 8, 200, 0, 0) }

UnhandledPool == { UntypedEv(RDP_GFX_EVENT_NONE), UntypedEv(16) }

DegeneratePool ==
    { SolidFillEv(5, 1, 0, 480), CreateSurfaceEv(1, 640, 0),
      [WebpTileEv(5, 7, 100) EXCEPT !.width = 0] }

PayloadlessPool ==
    { WebpTileEv(5, 0, 100), WebpTileEv(5, 7, 0),
      VideoFrameEv(5, RDP_GFX_CODEC_AVC420, 0, 200, 0, 0),
      VideoFrameEv(5, RDP_GFX_CODEC_CLEARCODEC, 8, 0, 0, 0) }

TranslatePool ==
    HandledPool \cup VideoPool \cup UnhandledPool \cup DegeneratePool \cup PayloadlessPool

\* The engine queues one burst of up to MaxQueue events of any variant.
NativeQueueVariants(b) ==
    /\ handle[b] = "connected"
    /\ produced = 0
    /\ \E k \in 1..MaxQueue :
          \E burst \in [1..k -> TranslatePool] :
              /\ queue' = [queue EXCEPT ![b] = queue[b] \o burst]
              /\ produced' = k
    /\ UNCHANGED <<transportVars, cpu, handlerVars, bridgeVars, frameVars, audioVars,
                   audioBuf, audioProduced, sendFailed, inboundVars, policyVars, config, pureVars>>

NextTranslate ==
    \/ HandleFirstConnect
    \/ HandleConnectOk
    \/ HandleConnectFailed
    \/ PeerClose
    \/ \E b \in Bridges : FrameLoopTop(b)
    \/ \E b \in Bridges : FramePollOk(b)
    \/ \E b \in Bridges : FrameDrainEvent(b)
    \/ \E b \in Bridges : FrameDrainEnd(b)
    \/ \E b \in Bridges : FrameSendDone(b)
    \/ \E b \in Bridges : NativeQueueVariants(b)

SpecTranslate == Init /\ [][NextTranslate]_vars

\* A connection on which the browser sends binary backchannel messages: short
\* buffers, truncated and complete frame acknowledgments, buffers with other
\* magics and a backpressure signal.  The session delivers nothing and its
\* polls succeed.
AckSuspend == Magic.FACK \o <<7, 0, 0, 0, 3, 0, 0, 0, 255, 255, 255, 255>>
AckLive == Magic.FACK \o <<2, 1, 0, 0, 0, 0, 1, 0, 2, 0, 0, 0>>
BackpressureSignal == <<66, 80, 82, 83, 4, 0, 0, 0>>

ShortBuffers == { <<>>, <<70, 65, 67>> }
TruncatedAcks == { Magic.FACK, SubSeq(AckSuspend, 1, 15) }
CompleteAcks == { AckSuspend, AckLive, AckSuspend \o <<9>> }
UnknownBuffers == { <<88, 88, 88, 88, 1, 0, 0, 0>>, Magic.STFR \o <<5, 0, 0, 0>> }

InboundPool ==
    ShortBuffers \cup TruncatedAcks \cup CompleteAcks \cup UnknownBuffers
        \cup {BackpressureSignal}

HandleBinary ==
    /\ Len(inbound) < MaxInbound
    /\ \E data \in InboundPool : ReceiveBinary(data)

NextInbound ==
    \/ HandleFirstConnect
    \/ Handler
    \/ HandleBinary
    \/ PeerClose
    \/ \E b \in Bridges : FrameLoopTop(b)
    \/ \E b \in Bridges : FramePollOk(b)
    \/ \E b \in Bridges : FrameDrainEnd(b)
    \/ \E b \in Bridges : FrameCancelled(b)
    \/ \E b \in Bridges : FrameNotifyDone(b)
    \/ \E b \in Bridges : FrameCloseDone(b)
    \/ \E b \in Bridges : AudioLoopTop(b)
    \/ \E b \in Bridges : AudioCancelled(b)

SpecInbound == Init /\ [][NextInbound]_vars

\* A connection on which the browser sends one binary message before any
\* 'connect': every prefix of a 17-byte buffer made of a magic, three u32
\* fields and one more byte.
AckMagics == { Magic.FACK, <<70, 65, 67, 88>>, Magic.STFR, SubSeq(BackpressureSignal, 1, 4) }
AckQuads ==
    { <<7, 0, 0, 0>>, <<3, 0, 0, 0>>, <<2, 1, 0, 0>>, <<0, 0, 1, 0>>, <<0, 0, 0, 128>>,
      <<255, 255, 255, 255>> }
AckBuffers ==
    { SubSeq(magic \o q1 \o q2 \o q3 \o <<9>>, 1, len) :
        magic \in AckMagics, q1 \in AckQuads, q2 \in AckQuads, q3 \in AckQuads, len \in 0..17 }

HandleAckBuffer ==
    /\ inbound = <<>>
    /\ \E data \in AckBuffers : ReceiveBinary(data)

NextParse ==
    \/ HandleAckBuffer
    \/ PeerClose
    \/ HandleConnectionClosed
    \/ HandleFinally

SpecParse == Init /\ [][NextParse]_vars

\* Destinations, rules and policy files.
HostDb == <<"d", "b", ".", "c", "o", "r", "p">>
HostDbUpper == <<"D", "B", ".", "C", "O", "R", "P">>
HostWeb == <<"w", "e", "b", ".", "n", "e", "t">>
HostTenOne == <<"1", "0", ".", "1", ".", "2", ".", "3">>
HostTenNine == <<"1", "0", ".", "9", ".", "0", ".", "1">>
HostPrivate == <<"1", "9", "2", ".", "1", "6", "8", ".", "1", ".", "5">>
HostBadOctet == <<"2", "5", "6", ".", "1", ".", "1", ".", "1">>
Hosts == {HostDb, HostDbUpper, HostWeb, HostTenOne, HostTenNine, HostPrivate, HostBadOctet}
Ports == {DefaultPort, DefaultPort + 1}

GlobCorp == <<"*", ".", "c", "o", "r", "p">>
GlobTen == <<"1", "0", ".", "*">>
GlobClass == <<"[", "w", "d", "]", "b", ".", "n", "?", "t">>
HostnameLists == { <<>>, <<GlobCorp>>, <<GlobTen>>, <<GlobClass, GlobCorp>> }

Cidr24 == <<"1", "0", ".", "1", ".", "2", ".", "0", "/", "2", "4">>
Cidr8 == <<"1", "0", ".", "0", ".", "0", ".", "0", "/", "8">>
CidrHost == <<"1", "9", "2", ".", "1", "6", "8", ".", "1", ".", "5">>
CidrPrefix33 == <<"1", "0", ".", "0", ".", "0", ".", "0", "/", "3", "3">>
CidrBadPrefix == <<"1", "0", ".", "0", ".", "0", ".", "0", "/", "x">>
CidrLists ==
    { <<>>, <<Cidr24>>, <<Cidr8>>, <<CidrHost, Cidr24>>, <<CidrPrefix33>>,
      <<CidrBadPrefix, Cidr8>>, <<Cidr8, CidrBadPrefix>> }

\* The expressions ^10\.1\..*:3389$ and corp:3389, and \q, which re.compile
\* rejects.
Lits(str) == [i \in DOMAIN str |-> LitTok(str[i])]
RegexTenOneRdp ==
    [tokens |-> Lits(<<"1", "0", ".", "1", ".">>) \o <<StarTok>> \o Lits(<<":", "3", "3", "8", "9">>),
     start |-> TRUE, end |-> TRUE, ignorecase |-> FALSE]
RegexCorpRdp ==
    [tokens |-> Lits(<<"c", "o", "r", "p", ":", "3", "3", "8", "9">>), start |-> FALSE, end |-> FALSE, ignorecase |-> FALSE]
RegexBadEscape ==
    [tokens |-> <<EscTok("q")>>, start |-> FALSE, end |-> FALSE, ignorecase |-> FALSE]
RegexLists == { <<>>, <<RegexTenOneRdp>>, <<RegexCorpRdp>>, <<RegexBadEscape>> }

PolicyFiles ==
    { PolicyFile(h, c, r) : h \in HostnameLists, c \in CidrLists, r \in RegexLists }

\* A policy of the deployment and validate calls on it.
InitPolicy == InitConnection /\ policyFile \in PolicyFiles

Validation ==
    /\ Len(verdicts) < MaxValidations
    /\ \E host \in Hosts, port \in Ports : ValidateDestination(host, port)

NextPolicy == Validation

SpecPolicy == InitPolicy /\ [][NextPolicy]_vars

\* A deployment with or without rules, and a browser that asks for sessions
\* to destinations inside and outside the rules.
AdmissionPolicyFiles ==
    { NoPolicyFile, PolicyFile(<<GlobCorp>>, <<Cidr24>>, <<>>),
      PolicyFile(<<>>, <<>>, <<RegexTenOneRdp>>) }
ConnectHosts == {HostDb, HostWeb, HostTenOne, HostTenNine}

InitAdmission == InitConnection /\ policyFile \in AdmissionPolicyFiles

ConnectRequest == \E host \in ConnectHosts, port \in Ports : HandleConnectTo(host, port)

NextAdmission ==
    \/ ConnectRequest
    \/ HandleConnectOk
    \/ HandleConnectFailed
    \/ PeerClose
    \/ \E b \in Bridges : FrameLoopTop(b)
    \/ \E b \in Bridges : FramePollOk(b)
    \/ \E b \in Bridges : FrameDrainEnd(b)
    \/ \E b \in Bridges : AudioLoopTop(b)

SpecAdmission == InitAdmission /\ [][NextAdmission]_vars


\* A session whose audio calls may raise: the engine buffers Opus frames, the
\* native calls of the audio loop fail any number of times in a row, the peer
\* may close the connection and the browser may disconnect.
NextAudioErrors ==
    \/ HandleFirstConnect
    \/ HandleConnectOk
    \/ HandleDisconnect
    \/ HandleConnectionClosed
    \/ HandleFinally
    \/ DisconnectAwaitFrame
    \/ DisconnectAwaitAudio
    \/ PeerClose
    \/ \E b \in Bridges : FrameLoopTop(b)
    \/ \E b \in Bridges : FramePollOk(b)
    \/ \E b \in Bridges : FrameDrainEnd(b)
    \/ \E b \in Bridges : FrameCancelled(b)
    \/ \E b \in Bridges : AudioStopped(b)
    \/ \E b \in Bridges : AudioPollEmpty(b, MaxIdlePolls)
    \/ \E b \in Bridges : AudioPollData(b)
    \/ \E b \in Bridges : AudioPollRaises(b, MaxAudioErrors)
    \/ \E b \in Bridges : AudioReadFrame(b)
    \/ \E b \in Bridges : AudioReadRaises(b, MaxAudioErrors)
    \/ \E b \in Bridges : AudioFrameSent(b)
    \/ \E b \in Bridges : AudioBatchEnd(b)
    \/ \E b \in Bridges : AudioCancelled(b)
    \/ \E b \in Bridges : NativeQueueAudio(b)

SpecAudioErrors == Init /\ [][NextAudioErrors]_vars

\* A session whose audio goes silent: the engine buffers Opus frames now and
\* then, the audio loop polls in between, and the clock advances.
NativeQueueOpus(b) == BufferOpus(b, MaxOpusFrames)

NextAudioStall ==
    \/ HandleFirstConnect
    \/ HandleConnectOk
    \/ HandleDisconnect
    \/ DisconnectAwaitFrame
    \/ DisconnectAwaitAudio
    \/ \E b \in Bridges : FrameLoopTop(b)
    \/ \E b \in Bridges : FrameCancelled(b)
    \/ \E b \in Bridges : AudioStopped(b)
    \/ \E b \in Bridges : AudioPollEmpty(b, MaxEmptyPolls)
    \/ \E b \in Bridges : AudioPollData(b)
    \/ \E b \in Bridges : AudioReadFrame(b)
    \/ \E b \in Bridges : AudioFrameSent(b)
    \/ \E b \in Bridges : AudioBatchEnd(b)
    \/ \E b \in Bridges : AudioCancelled(b)
    \/ \E b \in Bridges : NativeQueueOpus(b)
    \/ \E b \in Bridges : TimePasses(b)

SpecAudioStall == Init /\ [][NextAudioStall]_vars


\* Membership calls: IPv4 addresses against a base with or without a prefix
\* length.  The addresses are the examples, the ends of the address space and
\* a network address with each one of its 32 bits flipped; the bases are
\* networks and strings that are no IPv4 address; the prefix lengths run from
\* -1 to MaxPrefix, next to a suffix that is no number.
Ipv4(a, b, c, d) ==
    [text |-> DecimalString(a) \o <<".">> \o DecimalString(b) \o <<".">>
              \o DecimalString(c) \o <<".">> \o DecimalString(d),
     ipv4 |-> TRUE, hi |-> a * 256 + b, lo |-> c * 256 + d]
NotIpv4(text) == [text |-> text, ipv4 |-> FALSE, hi |-> 0, lo |-> 0]
FlipBit(a, b, c, d, k) ==
    LET octet == 3 - (k \div 8)
        bit == Pow2(k % 8)
        flip(v) == IF (v \div bit) % 2 = 1 THEN v - bit ELSE v + bit
    IN  Ipv4(IF octet = 0 THEN flip(a) ELSE a, IF octet = 1 THEN flip(b) ELSE b,
             IF octet = 2 THEN flip(c) ELSE c, IF octet = 3 THEN flip(d) ELSE d)
MemberAddresses ==
    { Ipv4(192, 168, 1, 5), Ipv4(192, 168, 2, 5), Ipv4(10, 1, 2, 3), Ipv4(0, 0, 0, 0),
      Ipv4(255, 255, 255, 255) }
    \cup { FlipBit(192, 168, 1, 0, k) : k \in 0..31 }
HostThreeGroups == <<"1", "0", ".", "0", ".", "0">>
MemberBases ==
    { Ipv4(192, 168, 1, 0), Ipv4(10, 0, 0, 0), Ipv4(0, 0, 0, 0), Ipv4(255, 255, 255, 255),
      NotIpv4(HostDb), NotIpv4(HostBadOctet), NotIpv4(HostThreeGroups) }
MemberPrefixes ==
    { [kind |-> "int", value |-> p] : p \in (0 - 1)..MaxPrefix }
    \cup { NoPrefix, [kind |-> "text", value |-> 0] }
Suffix(prefix) ==
    IF prefix.kind = "none" THEN <<>>
    ELSE IF prefix.kind = "text" THEN <<"/", "x">>
    ELSE IF prefix.value < 0 THEN <<"/", "-">> \o DecimalString(0 - prefix.value)
    ELSE <<"/">> \o DecimalString(prefix.value)

CidrMembership ==
    /\ membership = NoMembership
    /\ \E address \in MemberAddresses, base \in MemberBases, prefix \in MemberPrefixes :
          membership' = Membership(address, base, prefix,
                                   is_ip_in_cidr(address.text, base.text \o Suffix(prefix)))
    /\ UNCHANGED <<connVars, codec, registry, objects>>

NextCidr == CidrMembership

SpecCidr == Init /\ [][NextCidr]_vars

\* The library is loaded with RDP_MAX_SESSIONS unset, empty, a number from
\* -MaxSetting to MaxSetting in one of its spellings, or a text that is
\* no integer.
Setting(kind, value, text) == [kind |-> kind, value |-> value, text |-> text]
NumberSettings ==
    { Setting("int", n, DecimalString(n)) : n \in 0..MaxSetting }
    \cup { Setting("int", 0 - n, <<"-">> \o DecimalString(n)) : n \in 1..MaxSetting }
SpelledSettings ==
    { Setting("int", 50, <<"+", "5", "0">>), Setting("int", 7, <<" ", "7", " ">>),
      Setting("int", 7, <<"0", "0", "7">>), Setting("int", 1000, <<"1", "_", "0", "0", "0">>),
      Setting("int", 2000000000, <<"2", "0", "0", "0", "0", "0", "0", "0", "0", "0">>) }
TextSettings ==
    { Setting("unset", 0, Unset), Setting("text", 0, <<>>), Setting("text", 0, <<"a", "b", "c">>),
      Setting("text", 0, <<"1", ".", "5">>), Setting("text", 0, <<"1", "e", "3">>),
      Setting("text", 0, <<"1", "0", "_">>), Setting("text", 0, <<"1", "_", "_", "0">>),
      Setting("text", 0, <<"5", " ", "0">>), Setting("text", 0, <<"-">>),
      Setting("text", 0, <<" ">>) }
Settings == NumberSettings \cup SpelledSettings \cup TextSettings

LoadLibrary ==
    /\ registry = NoRegistry
    /\ objects = NoObjects
    /\ \E s \in Settings :
          registry' = [setting |-> s, max_sessions |-> init_session_registry(s.text)]
    /\ UNCHANGED <<connVars, codec, membership, objects>>

NextRegistry == LoadLibrary

SpecRegistry == Init /\ [][NextRegistry]_vars

\* A policy is constructed from a dict, frozen or not; afterwards its owner
\* calls get_policy and changes the source dict and the returned dict in
\* every way the objects admit: appending to a list, clearing it, binding a
\* key to a new list, deleting a key.  A tuple refuses the change.
GlobAll == <<"*">>
CidrAll == <<"0", ".", "0", ".", "0", ".", "0", "/", "0">>
SourceDicts ==
    { PolicyFile(h, c, r) : h \in {<<>>, <<GlobCorp>>}, c \in {<<>>, <<Cidr24>>},
                            r \in {<<>>, <<RegexCorpRdp>>} }
NewRule(key) ==
    IF key = "allowedHostnames" THEN GlobAll
    ELSE IF key = "allowedIpv4Cidrs" THEN CidrAll
    ELSE RegexTenOneRdp

ConstructPolicy ==
    /\ objects = NoObjects
    /\ \E file \in SourceDicts, freeze \in BOOLEAN :
          LET built == ConstructedPolicy(file, freeze)
          IN  objects' = [lists |-> built.lists, dicts |-> built.dicts,
                          policy |-> built.policy, compiled |-> built.compiled,
                          returned |-> 0,
                          original |-> PolicyView([lists |-> built.lists,
                                                   dicts |-> built.dicts,
                                                   policy |-> built.policy,
                                                   compiled |-> built.compiled]),
                          changes |-> 0]
    /\ UNCHANGED <<connVars, codec, membership, registry>>

GetPolicy ==
    /\ objects.policy # 0
    /\ objects.returned = 0
    /\ LET got == get_policy(objects)
       IN  objects' = [objects EXCEPT !.lists = got.lists,
                                      !.dicts = Append(objects.dicts, got.dict),
                                      !.returned = Len(objects.dicts) + 1]
    /\ UNCHANGED <<connVars, codec, membership, registry>>

\* The dicts in the owner's hands: the source dict and the returned dict.
InHand == {1} \cup (IF objects.returned = 0 THEN {} ELSE {objects.returned})
Changing == objects.policy # 0 /\ objects.changes < MaxChanges

\* d[key].append(rule) or d[key].clear(); on a tuple both raise.
ChangeList(d, key, items) ==
    LET id == objects.dicts[d][key]
    IN  /\ id # 0
        /\ objects' = [objects EXCEPT
                          !.lists = IF objects.lists[id].frozen THEN @
                                    ELSE [@ EXCEPT ![id].items = items],
                          !.changes = @ + 1]
ListAppend ==
    /\ Changing
    /\ \E d \in InHand, key \in RuleKeys :
          /\ objects.dicts[d][key] # 0
          /\ ChangeList(d, key, Append(ItemsAt(objects.lists, objects.dicts[d][key]),
                                       NewRule(key)))
    /\ UNCHANGED <<connVars, codec, membership, registry>>
ListClear ==
    /\ Changing
    /\ \E d \in InHand, key \in RuleKeys : ChangeList(d, key, <<>>)
    /\ UNCHANGED <<connVars, codec, membership, registry>>

\* d[key] = [rule]
DictAssign ==
    /\ Changing
    /\ \E d \in InHand, key \in RuleKeys :
          /\ ~objects.dicts[d].proxy
          /\ objects' = [objects EXCEPT
                            !.lists = Append(@, Cell(<<NewRule(key)>>, FALSE)),
                            !.dicts = [@ EXCEPT ![d][key] = Len(objects.lists) + 1],
                            !.changes = @ + 1]
    /\ UNCHANGED <<connVars, codec, membership, registry>>

\* del d[key]
DictDelete ==
    /\ Changing
    /\ \E d \in InHand, key \in RuleKeys :
          /\ ~objects.dicts[d].proxy
          /\ objects.dicts[d][key] # 0
          /\ objects' = [objects EXCEPT !.dicts = [@ EXCEPT ![d][key] = 0],
                                        !.changes = @ + 1]
    /\ UNCHANGED <<connVars, codec, membership, registry>>

NextObjects ==
    \/ ConstructPolicy
    \/ GetPolicy
    \/ ListAppend
    \/ ListClear
    \/ DictAssign
    \/ DictDelete

SpecObjects == Init /\ [][NextObjects]_vars

\* A session whose engine buffers Opus frames faster than the audio loop
\* sends them.
NativeQueueOpusBurst(b) == BufferOpus(b, MaxBurstFrames)

NextAudioBatch ==
    \/ HandleFirstConnect
    \/ HandleConnectOk
    \/ \E b \in Bridges : AudioPollEmpty(b, MaxIdlePolls)
    \/ \E b \in Bridges : AudioPollData(b)
    \/ \E b \in Bridges : AudioReadFrame(b)
    \/ \E b \in Bridges : AudioFrameSent(b)
    \/ \E b \in Bridges : AudioBatchYield(b)
    \/ \E b \in Bridges : NativeQueueOpusBurst(b)

SpecAudioBatch == Init /\ [][NextAudioBatch]_vars

\* A session that is torn down, by the browser or by the peer going away,
\* while the frame loop polls on the executor thread.
NextPollTeardown ==
    \/ HandleFirstConnect
    \/ HandleConnectOk
    \/ HandleDisconnect
    \/ HandleConnectionClosed
    \/ HandleFinally
    \/ DisconnectAwaitFrame
    \/ DisconnectAwaitAudio
    \/ PeerClose
    \/ \E b \in Bridges : FrameLoopTop(b)
    \/ \E b \in Bridges : FramePollOk(b)
    \/ \E b \in Bridges : FramePollError(b)
    \/ \E b \in Bridges : FrameDrainEnd(b)
    \/ \E b \in Bridges : FrameCancelled(b)
    \/ \E b \in Bridges : FrameNotifyDone(b)
    \/ \E b \in Bridges : FrameCloseDone(b)
    \/ \E b \in Bridges : PollAbandonedReturns(b)
    \/ \E b \in Bridges : AudioLoopTop(b)
    \/ \E b \in Bridges : AudioCancelled(b)

SpecPollTeardown == Init /\ [][NextPollTeardown]_vars

\* A session with audio buffered whose poll reports an error.
NextPollErrorAudio ==
    \/ HandleFirstConnect
    \/ HandleConnectOk
    \/ \E b \in Bridges : FrameLoopTop(b)
    \/ \E b \in Bridges : FramePollOk(b)
    \/ \E b \in Bridges : FramePollError(b)
    \/ \E b \in Bridges : FrameDrainEnd(b)
    \/ \E b \in Bridges : FrameNotifyDone(b)
    \/ \E b \in Bridges : AudioStopped(b)
    \/ \E b \in Bridges : AudioPollEmpty(b, MaxIdlePolls)
    \/ \E b \in Bridges : AudioPollData(b)
    \/ \E b \in Bridges : AudioReadFrame(b)
    \/ \E b \in Bridges : AudioFrameSent(b)
    \/ \E b \in Bridges : AudioBatchYield(b)
    \/ \E b \in Bridges : NativeQueueOpus(b)

SpecPollErrorAudio == Init /\ [][NextPollErrorAudio]_vars

\* A session that keeps running: every poll succeeds, every send succeeds,
\* nobody disconnects, and the event loop runs the frame task whenever it is
\* ready.
DrainProgress(b) ==
    \/ FrameLoopTop(b)
    \/ FramePollOk(b)
    \/ FrameDrainEvent(b)
    \/ FrameDrainEnd(b)
    \/ FrameSendDone(b)

NextDrain ==
    \/ HandleFirstConnect
    \/ HandleConnectOk
    \/ \E b \in Bridges : FrameLoopTop(b)
    \/ \E b \in Bridges : FramePollOk(b)
    \/ \E b \in Bridges : FrameDrainEvent(b)
    \/ \E b \in Bridges : FrameDrainEnd(b)
    \/ \E b \in Bridges : FrameSendDone(b)
    \/ \E b \in Bridges : NativeQueueBurst(b)

SpecDrainFair == Init /\ [][NextDrain]_vars /\ \A b \in Bridges : WF_vars(DrainProgress(b))

\* A connection whose client sends one 'connect', input events, resize
\* requests and 'disconnect', with a session that may fail to connect, whose
\* polls may fail and whose peer may close at any moment.  The engine queues
\* nothing: the loops poll and look at the queues.
NextControl ==
    \/ HandleFirstConnect
    \/ Handler
    \/ HandleMouse
    \/ HandleKey
    \/ HandleResize
    \/ PeerClose
    \/ \E b \in Bridges : FrameLoopTop(b)
    \/ \E b \in Bridges : FramePollOk(b)
    \/ \E b \in Bridges : FramePollError(b)
    \/ \E b \in Bridges : FrameDrainEnd(b)
    \/ \E b \in Bridges : FrameCancelled(b)
    \/ \E b \in Bridges : FrameNotifyDone(b)
    \/ \E b \in Bridges : FrameCloseDone(b)
    \/ \E b \in Bridges : AudioLoopTop(b)
    \/ \E b \in Bridges : AudioCancelled(b)

SpecControl == Init /\ [][NextControl]_vars

\* A deployment whose policy file is present with rules, present without
\* rules, not an object, not JSON, unreadable or missing; the policy is loaded
\* on first use by a validate call.
LoadFiles ==
    { PolicyFile(<<GlobCorp>>, <<Cidr24>>, <<RegexCorpRdp>>), PolicyFile(<<>>, <<Cidr8>>, <<>>), NoPolicyFile }
        \cup { FileOfKind(kind, <<GlobCorp>>, <<Cidr24>>, <<>>) :
                   kind \in {"array", "null", "invalid", "unreadable"} }
        \cup { FileOfKind("missing", <<>>, <<>>, <<>>) }

InitLoad == InitConnection /\ policyFile \in LoadFiles

NextLoad == Validation

SpecLoad == InitLoad /\ [][NextLoad]_vars

\* Encoding a message and decoding its bytes again.  The values of a field
\* are the ends and the inside of the range that its format code and its
\* catalog type share; a vector takes the same position of every field's
\* range, or differs from the second position in one field.
FieldPool(code) ==
    CASE code = "B" -> <<0, 1, 2, 255>>
      [] code = "H" -> <<0, 1, 32767, 65535>>
      [] code = "h" -> <<0, -1, 32767, -32768>>
      [] OTHER -> <<U32(0, 0), U32(1, 0), U32(0, 32768), U32(65535, 65535)>>
ValidPool(magic, i) ==
    IF struct_format[magic][i] = catalog_layout[magic][i]
    THEN FieldPool(struct_format[magic][i])
    ELSE <<0, 1, 640, 32767>>
FieldCount(magic) == Len(struct_format[magic]) - catalog_payloads(magic)
FieldVectors(magic) ==
    { [i \in 1..FieldCount(magic) |-> ValidPool(magic, i)[k]] : k \in 1..4 }
        \cup { [i \in 1..FieldCount(magic) |->
                   IF i = j THEN ValidPool(magic, i)[k] ELSE ValidPool(magic, i)[2]] :
               j \in 1..FieldCount(magic), k \in 1..4 }
PayloadPool == { <<>>, <<7>>, <<1, 2, 255>> }
PayloadVectors(magic) ==
    IF catalog_payloads(magic) = 0 THEN { <<>> }
    ELSE IF catalog_payloads(magic) = 1 THEN { <<p>> : p \in PayloadPool }
    ELSE { <<p, q>> : p \in PayloadPool, q \in PayloadPool }
SettingsPool == { {}, {0}, {16}, {1, 13}, 0..16, 0..15 }

Decoded(encoded) == IF encoded.res = "ok" THEN decode(encoded.bytes) ELSE Invalid

EncodeDecode(magic, fields, payloads) ==
    /\ codec = NoCodec
    /\ codec' = CodecRun(magic, fields, {}, payloads, build_bytes(magic, fields, payloads),
                         Decoded(build_bytes(magic, fields, payloads)))
    /\ UNCHANGED <<connVars, membership, registry, objects>>

EncodeDecodeSettings(color_depth, settings) ==
    /\ codec = NoCodec
    /\ codec' = CodecRun("INIT", <<color_depth>>, settings, <<>>,
                         build_init_settings_bytes(color_depth, settings),
                         Decoded(build_init_settings_bytes(color_depth, settings)))
    /\ UNCHANGED <<connVars, membership, registry, objects>>

\* The browser's FrameAck read by parse_frame_ack.
EncodeParseAck(frame_id, total_frames_decoded, queue_depth) ==
    LET bytes == encode_frame_ack(frame_id, total_frames_decoded, queue_depth)
        parsed == parse_frame_ack(bytes)
    IN  /\ codec = NoCodec
        /\ codec' = CodecRun("FACK", <<frame_id, total_frames_decoded, queue_depth>>, {}, <<>>,
                             [res |-> "ok", bytes |-> bytes],
                             [res |-> parsed.res, magic |-> "FACK",
                              fields |-> <<parsed.frame_id, parsed.total_frames_decoded,
                                           parsed.queue_depth>>,
                              payloads |-> <<>>])
        /\ UNCHANGED <<connVars, membership, registry, objects>>

RoundTripMessage ==
    \E magic \in Builders \ {"INIT"} :
        \E fields \in FieldVectors(magic), payloads \in PayloadVectors(magic) :
            EncodeDecode(magic, fields, payloads)
RoundTripSettings ==
    \E color_depth \in {U32(32, 0), U32(16, 0), U32(65535, 65535)}, settings \in SettingsPool :
        EncodeDecodeSettings(color_depth, settings)
RoundTripAck ==
    \E f \in {U32(0, 0), U32(7, 0), U32(65535, 65535)},
       t \in {U32(0, 0), U32(3, 1)}, q \in {U32(0, 0), U32(2, 0), U32(65535, 65535)} :
        EncodeParseAck(f, t, q)

NextCodec ==
    \/ RoundTripMessage
    \/ RoundTripSettings
    \/ RoundTripAck

SpecCodec == Init /\ [][NextCodec]_vars

(***************************************************************************)
(* Properties.                                                             *)
(***************************************************************************)
\* The graphics / audio entries that bridge b wrote to the transport, in order.
GfxSent(b) ==
    LET IsGfx(e) == e.b = b /\ e.ch = "gfx"
    IN  SelectSeq(sent, IsGfx)

AudioSent(b) ==
    LET IsAudio(e) == e.b = b /\ e.ch = "audio"
    IN  SelectSeq(sent, IsAudio)

\* The StartFrame and EndFrame messages that bridge b sent, in order.
FrameBoundaries(b) ==
    LET IsBoundary(e) == e.b = b /\ e.ch = "gfx" /\ e.m.magic \in {"STFR", "ENFR"}
    IN  SelectSeq(sent, IsBoundary)

\* C1: on every bridge the StartFrame and EndFrame messages sent alternate
\* strictly and begin with a StartFrame, whatever events were delivered.
C1_FramesAlternate ==
    \A b \in Bridges :
        \A i \in DOMAIN FrameBoundaries(b) :
            FrameBoundaries(b)[i].m.magic = IF i % 2 = 1 THEN "STFR" ELSE "ENFR"

\* C2: an EndFrame message is the last graphics message of its poll cycle:
\* nothing is sent after it until the next poll is issued, so a cycle has at
\* most one EndFrame.
C2_EndFrameEndsCycle ==
    \A b \in Bridges :
        \A i \in 1..(Len(cycleSent[b]) - 1) : cycleSent[b][i].magic # "ENFR"

\* An EndFrame was sent and the drain stopped with an event still queued.
C2_Witness ==
    \E b \in Bridges :
        /\ fpc[b] = "yield"
        /\ frame_completed[b]
        /\ queue[b] # <<>>
        /\ cycleSent[b] # <<>>
        /\ cycleSent[b][Len(cycleSent[b])].magic = "ENFR"

\* The Frame Sequencer's state after a sequence of events: a frame is open
\* after a StartFrame and until the next EndFrame.
RECURSIVE FrameOpenAfter(_)
FrameOpenAfter(events) ==
    IF events = <<>> THEN FALSE
    ELSE LET last == events[Len(events)]
             before == FrameOpenAfter(SubSeq(events, 1, Len(events) - 1))
         IN  IF last.type = RDP_GFX_EVENT_START_FRAME THEN TRUE
             ELSE IF last.type = RDP_GFX_EVENT_END_FRAME THEN FALSE
             ELSE before

\* The n-th event is an EndFrame with no frame open or a StartFrame with a
\* frame open.
IsSequencingViolation(events, n) ==
    LET open == FrameOpenAfter(SubSeq(events, 1, n - 1))
    IN  \/ events[n].type = RDP_GFX_EVENT_END_FRAME /\ ~open
        \/ events[n].type = RDP_GFX_EVENT_START_FRAME /\ open

\* C4: no message is sent for an EndFrame event delivered while no frame is
\* open, nor for a StartFrame event delivered while a frame is open.
C4_ViolationsDropped ==
    \A i \in DOMAIN sent :
        sent[i].ch = "gfx" =>
            ~IsSequencingViolation(drained[sent[i].b], sent[i].src)

\* C5: every externally-owned buffer of an event taken from the Session
\* Handle is released exactly once by the processing of that event, also
\* when its size is zero, when it is the chroma buffer of a ClearCodec frame,
\* and when no message is built or sent.
C5_ReleasedExactlyOnce ==
    \A b \in Bridges :
        \A n \in DOMAIN drained[b] :
            \A fld \in OwnedBuffers(drained[b][n]) : freeCount[b][n][fld] = 1

\* C7: after an exception escaped a frame-loop iteration the frame loop does
\* not poll the Session Handle again (the loops are stopped).
C7_ExceptionStopsLoop ==
    [][\A b \in Bridges : fpc[b] = "exc_sleep" => fpc'[b] # "poll"]_vars

\* Every Opus frame buffered so far that has been read from a buffer.
OpusFramesRead ==
    {k \in 1..audioProduced :
        \A b \in Bridges : \A i \in DOMAIN audioBuf[b] : audioBuf[b][i][1] # k}

C9_DestroyAfterTasks ==
    \A b \in Bridges :
        /\ handle[b] = "destroyed" =>
              /\ fpc[b] \in {"none", "done", "cancelled"}
              /\ apc[b] \in {"none", "done"}
        /\ acancel[b] => fpc[b] \in {"done", "cancelled"}

\* An explicit disconnect cancelled the frame loop, both tasks ended and the
\* handle was destroyed.
C9_Witness ==
    \E b \in Bridges :
        /\ hctx = "msg"
        /\ handle[b] = "destroyed"
        /\ disconnect_reason[b] = CancelledReason
        /\ apc[b] = "done"

\* The 'disconnected' notifications sent by bridge b / by anyone, in order.
Notifications(b) ==
    LET IsNote(e) == e.b = b /\ e.ch = "json" /\ e.m.magic = "disconnected"
    IN  SelectSeq(sent, IsNote)

AllNotifications ==
    LET IsNote(e) == e.ch = "json" /\ e.m.magic = "disconnected"
    IN  SelectSeq(sent, IsNote)

\* The websocket.close calls made by bridge b.
ClosesBy(b) ==
    LET IsBy(c) == c.b = b
    IN  SelectSeq(closeCalls, IsBy)

C6_Safety ==
    \A b \in Bridges :
        pollFailed[b] =>
            /\ ~running[b]
            /\ fpc[b] \in {"notify", "close_wait", "done", "cancelled"}
            /\ disconnect_reason[b] # NoReason
            /\ Len(Notifications(b)) <= 1
            /\ \A i \in DOMAIN Notifications(b) :
                  Notifications(b)[i].reason = disconnect_reason[b]
            /\ Len(Notifications(b)) = 0 => ws = "closed"
            /\ Len(ClosesBy(b)) <= 1
            /\ \A i \in DOMAIN ClosesBy(b) :
                  /\ Len(Notifications(b)) = 1
                  /\ ClosesBy(b)[i].reason.text = disconnect_reason[b].text
                  /\ ClosesBy(b)[i].reason.len <= CloseReasonMax
                  /\ \/ ClosesBy(b)[i].reason.len = disconnect_reason[b].len
                     \/ ClosesBy(b)[i].reason.len = CloseReasonMax
            /\ (fpc[b] = "done" /\ Len(Notifications(b)) = 1) => Len(ClosesBy(b)) = 1

C8_ExactlyOneNotification ==
    [][(/\ ws = "open" /\ ws' = "closed"
        /\ closeCalls' # closeCalls \/ hpc' = "done"
        /\ \E b \in Bridges : fpc[b] # "none")
       => Len(AllNotifications) = 1]_vars

\* C10: once handle_client has returned, every bridge one of whose sends
\* failed has both loops ended and its Session Handle destroyed.
C10_SendFailureTearsDown ==
    \A b \in Bridges :
        (sendFailed[b] /\ hpc = "done") =>
            /\ fpc[b] \in {"done", "cancelled"}
            /\ apc[b] = "done"
            /\ handle[b] = "destroyed"

\* The positions in the transport log of the graphics messages that bridge b
\* built from its n-th drained event.
SentFor(b, n) ==
    {i \in DOMAIN sent : sent[i].b = b /\ sent[i].ch = "gfx" /\ sent[i].src = n}

\* The event variants of the Event union, by type field.
HandledTypes ==
    { RDP_GFX_EVENT_CREATE_SURFACE, RDP_GFX_EVENT_DELETE_SURFACE, RDP_GFX_EVENT_MAP_SURFACE,
      RDP_GFX_EVENT_START_FRAME, RDP_GFX_EVENT_END_FRAME, RDP_GFX_EVENT_SOLID_FILL,
      RDP_GFX_EVENT_SURFACE_TO_SURFACE, RDP_GFX_EVENT_CACHE_TO_SURFACE,
      RDP_GFX_EVENT_SURFACE_TO_CACHE, RDP_GFX_EVENT_WEBP_TILE, RDP_GFX_EVENT_VIDEO_FRAME,
      RDP_GFX_EVENT_EVICT_CACHE, RDP_GFX_EVENT_RESET_GRAPHICS, RDP_GFX_EVENT_CAPS_CONFIRM,
      RDP_GFX_EVENT_INIT_SETTINGS }

\* The message families an event variant may be sent as.
VariantMagics(type) ==
    CASE type = RDP_GFX_EVENT_CREATE_SURFACE -> {"SURF"}
      [] type = RDP_GFX_EVENT_DELETE_SURFACE -> {"DELS"}
      [] type = RDP_GFX_EVENT_MAP_SURFACE -> {"MAPS"}
      [] type = RDP_GFX_EVENT_START_FRAME -> {"STFR"}
      [] type = RDP_GFX_EVENT_END_FRAME -> {"ENFR"}
      [] type = RDP_GFX_EVENT_SOLID_FILL -> {"SFIL"}
      [] type = RDP_GFX_EVENT_SURFACE_TO_SURFACE -> {"S2SF"}
      [] type = RDP_GFX_EVENT_CACHE_TO_SURFACE -> {"C2SF"}
      [] type = RDP_GFX_EVENT_SURFACE_TO_CACHE -> {"S2CH"}
      [] type = RDP_GFX_EVENT_WEBP_TILE -> {"WEBP"}
      [] type = RDP_GFX_EVENT_VIDEO_FRAME -> {"CLRC", "H264"}
      [] type = RDP_GFX_EVENT_EVICT_CACHE -> {"EVCT"}
      [] type = RDP_GFX_EVENT_RESET_GRAPHICS -> {"RSGR"}
      [] type = RDP_GFX_EVENT_CAPS_CONFIRM -> {"CAPS"}
      [] type = RDP_GFX_EVENT_INIT_SETTINGS -> {"INIT"}
      [] OTHER -> {}

\* The event carries the payload its variant needs, and its rectangle (when
\* the variant has one) is not empty.
HasPayload(event) ==
    /\ event.type = RDP_GFX_EVENT_WEBP_TILE => event.bitmap_data # 0 /\ event.bitmap_size > 0
    /\ event.type = RDP_GFX_EVENT_VIDEO_FRAME => event.nal_data # 0 /\ event.nal_size > 0

HasRectangle(event) ==
    event.type \in { RDP_GFX_EVENT_CREATE_SURFACE, RDP_GFX_EVENT_SOLID_FILL,
                     RDP_GFX_EVENT_SURFACE_TO_SURFACE, RDP_GFX_EVENT_SURFACE_TO_CACHE,
                     RDP_GFX_EVENT_RESET_GRAPHICS, RDP_GFX_EVENT_WEBP_TILE,
                     RDP_GFX_EVENT_VIDEO_FRAME }

IsDegenerate(event) == HasRectangle(event) /\ (event.width = 0 \/ event.height = 0)

\* The frame loop of bridge b takes an event from the queue in this step /
\* the event it takes.
Drains(b) == Len(drained'[b]) = Len(drained[b]) + 1
DrainedNow(b) == drained'[b][Len(drained'[b])]

\* C11: an event of a handled variant (payload present, rectangle not empty)
\* is sent as exactly one message, of the family of its variant; an event
\* whose type has no wire representation is sent as none, and draining it
\* neither raises nor stops the drain of the events queued after it.
C11_OnePerVariant ==
    /\ [](\A b \in Bridges : \A n \in DOMAIN drained[b] :
            LET event == drained[b][n]
            IN  /\ Cardinality(SentFor(b, n)) <= 1
                /\ \A i \in SentFor(b, n) : sent[i].m.magic \in VariantMagics(event.type)
                /\ (/\ event.type \in HandledTypes
                    /\ HasPayload(event) /\ ~IsDegenerate(event)
                    /\ ws = "open") => Cardinality(SentFor(b, n)) = 1
                /\ event.type \notin HandledTypes => SentFor(b, n) = {})
    /\ [][\A b \in Bridges :
            (Drains(b) /\ DrainedNow(b).type \notin HandledTypes) =>
                /\ sent' = sent
                /\ fpc'[b] = "drain" /\ cpu' = FrameTask(b)
                /\ frame_completed'[b] = frame_completed[b]]_vars

\* An event without wire representation was skipped and the event queued after
\* it was sent.
C11_Witness ==
    \E b \in Bridges : \E n \in DOMAIN drained[b] :
        /\ drained[b][n].type \notin HandledTypes
        /\ n + 1 \in DOMAIN drained[b]
        /\ drained[b][n + 1].type = RDP_GFX_EVENT_EVICT_CACHE
        /\ SentFor(b, n + 1) # {}
        /\ Len(cycleSent[b]) = 1

\* C12: a VideoFrame event with a non-empty payload is sent as a CLRC tile
\* message exactly when its codec id is ClearCodec (3) and as an H264 message
\* for every other codec id (of the u16 range of the wire field); either
\* message carries the event's NAL buffer.
C12_VideoRouting ==
    \A b \in Bridges : \A n \in DOMAIN drained[b] :
        LET event == drained[b][n]
        IN  (/\ event.type = RDP_GFX_EVENT_VIDEO_FRAME
             /\ event.nal_data # 0 /\ event.nal_size > 0) =>
                /\ ws = "open" => SentFor(b, n) # {}
                /\ \A i \in SentFor(b, n) :
                      /\ sent[i].m.magic = IF event.codec_id = 3 THEN "CLRC" ELSE "H264"
                      /\ sent[i].m.data[1] = <<event.nal_data, event.nal_size>>
                      /\ sent[i].m.magic = "H264" => sent[i].m.f[3] = event.codec_id

\* A ClearCodec frame was sent as CLRC and an AVC444 frame as H264.
C12_Witness ==
    \E b \in Bridges : \E n, k \in DOMAIN drained[b] :
        /\ drained[b][n] = VideoFrameEv(5, RDP_GFX_CODEC_CLEARCODEC, 8, 200, 0, 0)
        /\ drained[b][k] = VideoFrameEv(5, RDP_GFX_CODEC_AVC444, 8, 200, 9, 50)
        /\ \E i \in SentFor(b, n) : sent[i].m.magic = "CLRC"
        /\ \E i \in SentFor(b, k) : sent[i].m.magic = "H264"

\* The width and height fields of a message that carries dimensions.
Dimensions(m) ==
    CASE m.magic = "SURF" -> <<m.f[2], m.f[3]>>
      [] m.magic = "RSGR" -> <<m.f[1], m.f[2]>>
      [] m.magic \in {"SFIL", "WEBP", "CLRC"} -> <<m.f[5], m.f[6]>>
      [] m.magic \in {"S2SF", "S2CH"} -> <<m.f[6], m.f[7]>>
      [] m.magic = "H264" -> <<m.f[7], m.f[8]>>
      [] OTHER -> <<>>

\* C13: no message carrying dimensions is on the transport with width 0 or
\* height 0, and no message at all is sent for an event with an empty
\* rectangle.
C13_NoEmptyRectangleSent ==
    /\ \A i \in DOMAIN sent :
          sent[i].ch = "gfx" => \A d \in DOMAIN Dimensions(sent[i].m) : Dimensions(sent[i].m)[d] > 0
    /\ \A b \in Bridges : \A n \in DOMAIN drained[b] :
          IsDegenerate(drained[b][n]) => SentFor(b, n) = {}

\* A WebP tile or VideoFrame event whose payload pointer is NULL or whose
\* payload size is zero.
IsPayloadless(event) ==
    /\ event.type \in {RDP_GFX_EVENT_WEBP_TILE, RDP_GFX_EVENT_VIDEO_FRAME}
    /\ ~HasPayload(event)

\* C14: no message is ever sent for a WebP tile or VideoFrame event whose
\* payload pointer is missing or whose payload size is zero, and the step
\* that drains such an event sends nothing, raises nothing and leaves the
\* loop draining the events queued after it.
C14_PayloadlessDropped ==
    /\ [](\A b \in Bridges : \A n \in DOMAIN drained[b] :
            IsPayloadless(drained[b][n]) => SentFor(b, n) = {})
    /\ [][\A b \in Bridges :
            (Drains(b) /\ IsPayloadless(DrainedNow(b))) =>
                /\ sent' = sent
                /\ fpc'[b] = "drain" /\ cpu' = FrameTask(b)
                /\ frame_completed'[b] = frame_completed[b]]_vars

\* A WebP tile of size zero was dropped and the event queued after it was sent.
C14_Witness ==
    \E b \in Bridges : \E n \in DOMAIN drained[b] :
        /\ drained[b][n] = WebpTileEv(5, 7, 0)
        /\ SentFor(b, n) = {}
        /\ n + 1 \in DOMAIN drained[b]
        /\ drained[b][n + 1].type = RDP_GFX_EVENT_SOLID_FILL
        /\ SentFor(b, n + 1) # {}
        /\ Len(cycleSent[b]) = 1

\* A buffer of at least 16 bytes that starts with 'FACK'.
IsCompleteAck(data) ==
    /\ Len(data) >= 16
    /\ data[1] = 70 /\ data[2] = 65 /\ data[3] = 67 /\ data[4] = 75

\* The little-endian u32 whose first byte is the k-th byte of the buffer
\* (k counted from 0, as in the message layout).
FieldAt(data, k) ==
    [lo |-> data[k + 1] + data[k + 2] * 256, hi |-> data[k + 3] + data[k + 4] * 256]

\* The 'error' replies to the n-th binary message.
ErrorReplies(n) ==
    {i \in DOMAIN sent : sent[i].ch = "json" /\ sent[i].m.magic = "error" /\ sent[i].src = n}

\* C15: the complete frame acknowledgments received while a session is active
\* are, one for one and in order, the frame-acknowledgment calls made on the
\* Session Handle, each with the frame id, total frames decoded and queue
\* depth of its message, and none of them is answered with an error reply.
C15_AcksForwarded ==
    LET IsActiveAck(e) == e.active /\ IsCompleteAck(e.data)
        acks == SelectSeq(inbound, IsActiveAck)
    IN  /\ Len(nativeAcks) = Len(acks)
        /\ \A i \in DOMAIN acks :
              /\ nativeAcks[i].b = acks[i].bridge
              /\ nativeAcks[i].frame_id = FieldAt(acks[i].data, 4)
              /\ nativeAcks[i].total_frames_decoded = FieldAt(acks[i].data, 8)
              /\ nativeAcks[i].queue_depth = FieldAt(acks[i].data, 12)
        /\ \A n \in DOMAIN inbound : IsActiveAck(inbound[n]) => ErrorReplies(n) = {}

\* The first four bytes of a buffer are 'FACK' / are neither 'FACK' nor the
\* backpressure magic.
StartsWithFack(data) ==
    Len(data) >= 4 /\ data[1] = 70 /\ data[2] = 65 /\ data[3] = 67 /\ data[4] = 75

HasUnknownMagic(data) ==
    /\ Len(data) >= 4
    /\ ~StartsWithFack(data)
    /\ SubSeq(data, 1, 4) # SubSeq(BackpressureSignal, 1, 4)

\* A buffer shorter than 4 bytes, a truncated FrameAck, or an unknown magic.
IsMalformed(data) ==
    \/ Len(data) < 4
    \/ StartsWithFack(data) /\ Len(data) < 16
    \/ HasUnknownMagic(data)

\* handle_client receives a binary message in this step / the entry logged
\* for it.
Receives == Len(inbound') = Len(inbound) + 1
ReceivedNow == inbound'[Len(inbound')]

\* C16: receiving a binary message that is shorter than 4 bytes, is a
\* truncated FrameAck or carries an unknown magic makes no call on the
\* Session Handle, sends no reply, raises nothing and leaves the connection
\* open with handle_client waiting for the next message.
C16_MalformedDiscarded ==
    /\ [](\A n \in DOMAIN inbound :
            IsMalformed(inbound[n].data) =>
                /\ inbound[n].parsed.res = "none"
                /\ ErrorReplies(n) = {})
    /\ [][(Receives /\ IsMalformed(ReceivedNow.data)) =>
            /\ nativeAcks' = nativeAcks
            /\ sent' = sent
            /\ ws' = "open"
            /\ hpc' = "recv"]_vars

\* A truncated FrameAck was discarded and the complete FrameAck sent after it
\* was parsed.
C16_Witness ==
    /\ Len(inbound) = 2
    /\ inbound[1].data = SubSeq(AckSuspend, 1, 15)
    /\ inbound[2].data = AckSuspend
    /\ inbound[2].parsed.res = "ok"
    /\ inbound[1].active /\ inbound[2].active

\* C17: parse_frame_ack returns the three little-endian u32 fields of every
\* buffer of at least 16 bytes that starts with 'FACK', and None, without
\* raising, for every shorter buffer and every other magic;
\* FACK|7|3|0xFFFFFFFF parses to frame id 7, total 3 and the all-ones queue
\* depth that means 'suspend sending'.  handle_binary_message works with that
\* result.
C17_ParseFrameAck ==
    \A n \in DOMAIN inbound :
        LET data == inbound[n].data
            parsed == parse_frame_ack(data)
        IN  /\ IsCompleteAck(data) =>
                  /\ parsed.res = "ok"
                  /\ parsed.frame_id = FieldAt(data, 4)
                  /\ parsed.total_frames_decoded = FieldAt(data, 8)
                  /\ parsed.queue_depth = FieldAt(data, 12)
            /\ ~IsCompleteAck(data) => parsed.res = "none"
            /\ (Len(data) >= 16 /\ SubSeq(data, 1, 16) = AckSuspend) =>
                  /\ parsed.frame_id = [lo |-> 7, hi |-> 0]
                  /\ parsed.total_frames_decoded = [lo |-> 3, hi |-> 0]
                  /\ parsed.queue_depth = [lo |-> 65535, hi |-> 65535]
            /\ inbound[n].family = "frameAck" => inbound[n].parsed = parsed

\* The 16-byte FACK|7|3|0xFFFFFFFF was received and parsed.
C17_Witness ==
    /\ inbound # <<>>
    /\ inbound[1].data = AckSuspend
    /\ inbound[1].family = "frameAck"
    /\ inbound[1].parsed.res = "ok"
    /\ inbound[1].parsed.queue_depth = [lo |-> 65535, hi |-> 65535]

\* C18: a standalone backpressure message (the magic 'BPRS' followed by
\* queueDepth:u32) is handled as the backpressure family and parsed to its
\* queue depth, not as an unknown message.
C18_BackpressureRecognized ==
    \A n \in DOMAIN inbound :
        LET data == inbound[n].data
        IN  (Len(data) >= 8 /\ SubSeq(data, 1, 4) = <<66, 80, 82, 83>>) =>
                /\ inbound[n].family = "backpressure"
                /\ inbound[n].parsed.res = "ok"
                /\ inbound[n].parsed.queue_depth = FieldAt(data, 4)

\* The policy of the deployment denies the destination of bridge b's
\* 'connect' request.
DestinationDenied(b) ==
    /\ b <= created
    /\ ~validate(load_security_policy_from_file(policyFile).policy,
                 config[b].host, config[b].port).allowed

\* C19: for a 'connect' request whose destination the security policy does
\* not allow, no Session Handle is created and neither the frame loop nor
\* the audio loop is started.
C19_DeniedNeverConnected ==
    \A b \in Bridges :
        DestinationDenied(b) =>
            /\ handle[b] = "none"
            /\ fpc[b] = "none"
            /\ apc[b] = "none"

\* Some rule of policy p matches the destination: a destination expression
\* found in "host:port", a hostname pattern matching a host that is not an
\* IPv4 address, or a CIDR range holding a host that is one.
RegexRuleMatches(p, host, port) ==
    \E k \in DOMAIN p.compiled_regexes :
        RegexSearch(p.compiled_regexes[k], Destination(host, port))
GlobRuleMatches(p, host) ==
    /\ ~is_ipv4(host)
    /\ \E k \in DOMAIN p.allowedHostnames : match_glob(host, p.allowedHostnames[k])
CidrRuleMatches(p, host) ==
    /\ is_ipv4(host)
    /\ \E k \in DOMAIN p.allowedIpv4Cidrs :
           /\ is_ip_in_cidr(host, p.allowedIpv4Cidrs[k]).res = "ok"
           /\ is_ip_in_cidr(host, p.allowedIpv4Cidrs[k]).value
SomeRuleMatches(p, host, port) ==
    \/ RegexRuleMatches(p, host, port)
    \/ GlobRuleMatches(p, host)
    \/ CidrRuleMatches(p, host)
EmptyRuleSet(p) ==
    /\ p.allowedHostnames = <<>>
    /\ p.allowedIpv4Cidrs = <<>>
    /\ p.allowedDestinationRegex = <<>>

\* C20: a policy with an empty rule set allows every host and port; a policy
\* with at least one rule allows a destination only if some destination
\* expression, hostname pattern (hosts that are not IPv4 addresses) or CIDR
\* range (IPv4 hosts) matches it, and otherwise denies it with a reason.
C20_RuleSetDecides ==
    \A i \in DOMAIN verdicts :
        LET v == verdicts[i]
            matched == SomeRuleMatches(v.policy, v.host, v.port)
            allows == v.result.res = "ok" /\ v.result.allowed
            denies == v.result.res = "ok" /\ ~v.result.allowed /\ v.result.reason # <<>>
        IN  /\ EmptyRuleSet(v.policy) => allows
            /\ ~EmptyRuleSet(v.policy) /\ allows => matched
            /\ ~EmptyRuleSet(v.policy) /\ ~matched => denies

EndedByCancel(b) ==
    /\ fpc[b] \in {"done", "cancelled"}
    /\ disconnect_reason[b] = CancelledReason \/ fpc[b] = "cancelled"

\* C22: when a cancelled frame loop has ended, every externally-owned buffer
\* of every event it took from the Session Handle has been released.
C22_CancelLeavesNoBuffer ==
    \A b \in Bridges :
        EndedByCancel(b) =>
            \A n \in DOMAIN drained[b] :
                \A fld \in OwnedBuffers(drained[b][n]) : freeCount[b][n][fld] >= 1
\* C23: an exception raised inside an iteration of the audio loop is not
\* fatal: the step that handles it leaves the audio loop in its delay, the
\* frame loop where it was, the session running and the transport as it was;
\* and the audio loop ends only when the session is no longer running or the
\* loop has been cancelled.
AudioErrorStep(b) == audioHist'[b].errors = audioHist[b].errors + 1
C23_AudioErrorNotFatal ==
    [][\A b \in Bridges :
          /\ AudioErrorStep(b) =>
                /\ apc'[b] \in {"err_sleep", "err_backoff"}
                /\ fpc' = fpc /\ fcancel' = fcancel /\ acancel' = acancel
                /\ running' = running
                /\ ws' = ws /\ closeCalls' = closeCalls
          /\ (apc[b] # "done" /\ apc'[b] = "done") => (~running[b] \/ acancel[b])]_vars
\* Ten errors in a row, and the session still runs on an open transport with
\* both loops alive.
C23_Witness ==
    \E b \in Bridges :
        /\ apc[b] = "err_backoff" /\ audioHist[b].errors >= max_errors_before_reset
        /\ running[b] /\ ws = "open" /\ ~FrameTaskEnded(b)

\* C28: once the iterations of the audio loop have failed ten times in a
\* row, the delay before the next retry is the 100 ms back-off and not the
\* 1 ms retry delay, also when the errors are raised while buffered audio
\* data is reported available.
C28_BackoffAfterThreshold ==
    \A b \in Bridges :
        (apc[b] \in {"err_sleep", "err_backoff"}
         /\ audioHist[b].errors >= max_errors_before_reset) => apc[b] = "err_backoff"

\* C29: a step of the audio loop emits a stall warning or a diagnostic
\* snapshot only if a frame has been sent before, more than 2 seconds have
\* passed since the last frame, and the empty polls in a row have reached
\* max_empty_polls_before_warning.
StallReportStep(b) ==
    \/ audioHist'[b].stalls > audioHist[b].stalls
    \/ audioHist'[b].snapshots > audioHist[b].snapshots
C29_ReportOnlyWhenStalled ==
    [][\A b \in Bridges :
          StallReportStep(b) =>
              /\ monitor[b].frames_sent > 0
              /\ monitor[b].silent
              /\ monitor'[b].consecutive_empty_polls >= max_empty_polls_before_warning]_vars

\* C30: between two polls that find audio data, at most one stall warning and
\* at most one diagnostic snapshot are emitted; and the poll that finds data
\* again clears both flags.
C30_OncePerEpisode ==
    /\ [](\A b \in Bridges : audioHist[b].warnings <= 1 /\ audioHist[b].snapshots <= 1)
    /\ [][\A b \in Bridges :
             (apc[b] \in AudioWaits /\ apc'[b] = "batch") =>
                 (~monitor'[b].stall_warning_logged /\ ~monitor'[b].stall_diag_logged)]_vars
\* A second stall, after data had resumed, has been reported with a warning
\* and a snapshot of its own.
C30_Witness ==
    \E b \in Bridges :
        /\ audioHist[b].stalls = 2
        /\ audioHist[b].warnings = 1 /\ audioHist[b].snapshots = 1

\* C24: a poll cycle that has ended without draining an EndFrame event has a
\* count of messages sent of zero.
C24_NoFrameNoCount ==
    \A b \in Bridges :
        (fpc[b] = "yield" /\ ~frame_completed[b]) => events_sent[b] = 0

\* C25: is_ip_in_cidr(ip, base/prefix) is true exactly when the top prefix
\* bits of the two addresses agree, for a prefix from 0 to 32 (a base without
\* a suffix counts as /32); with a prefix outside 0..32, a suffix that is no
\* number or a base that is no IPv4 address it is never true.
SameTopBits(x, y, prefix) ==
    IF prefix <= 16
    THEN x.hi \div Pow2(16 - prefix) = y.hi \div Pow2(16 - prefix)
    ELSE x.hi = y.hi /\ x.lo \div Pow2(32 - prefix) = y.lo \div Pow2(32 - prefix)
PrefixLength(prefix) == IF prefix.kind = "none" THEN 32 ELSE prefix.value
C25_TopBitsAgree ==
    membership # NoMembership =>
        IF /\ membership.base.ipv4
           /\ membership.prefix.kind \in {"none", "int"}
           /\ PrefixLength(membership.prefix) \in 0..32
        THEN membership.outcome =
                 [res |-> "ok",
                  value |-> SameTopBits(membership.address, membership.base,
                                        PrefixLength(membership.prefix))]
        ELSE ~membership.outcome.value
\* 192.168.1.5 has been found inside 192.168.1.0/24.
C25_Witness ==
    /\ membership.address = Ipv4(192, 168, 1, 5)
    /\ membership.base = Ipv4(192, 168, 1, 0)
    /\ membership.prefix = [kind |-> "int", value |-> 24]
    /\ membership.outcome = [res |-> "ok", value |-> TRUE]

\* C26: the count handed to the session registry is between 2 and 1000: a
\* configured number below 2 gives 2, one above 1000 gives 1000, one in
\* between gives itself, and an unset or non-integer setting gives 100.
C26_SessionLimitBounded ==
    registry # NoRegistry =>
        /\ registry.max_sessions \in 2..1000
        /\ registry.max_sessions =
               IF registry.setting.kind # "int" THEN 100
               ELSE IF registry.setting.value < 2 THEN 2
               ELSE IF registry.setting.value > 1000 THEN 1000
               ELSE registry.setting.value
\* A setting above the ceiling has been cut to 1000.
C26_Witness ==
    /\ registry # NoRegistry
    /\ registry.setting.kind = "int" /\ registry.setting.value = 1001
    /\ registry.max_sessions = 1000

\* C27: for every host and port, validate on a constructed policy gives what
\* it gave at construction, whatever has been done since to the dict the
\* policy was built from and to the dict that get_policy returned.
C27_RuleSetImmutable ==
    objects.policy # 0 =>
        \A host \in ConnectHosts \cup {HostPrivate}, port \in Ports :
            validate(PolicyView(objects), host, port) = validate(objects.original, host, port)
\* The source dict's host names have been changed and a key of the returned
\* dict has been deleted.
C27_Witness ==
    /\ objects.policy # 0 /\ objects.returned # 0
    /\ ItemsAt(objects.lists, objects.dicts[1].allowedHostnames)
           # objects.original.allowedHostnames
    /\ objects.dicts[objects.returned].allowedIpv4Cidrs = 0

\* C31: in one iteration of the audio loop at most max_frames_per_batch (10)
\* frames are handed to the transport, however many are buffered; the count
\* starts again only on a step out of a sleep, after the loop has yielded.
C31_BatchCapped ==
    /\ [](\A b \in Bridges : audioHist[b].burst <= 10)
    /\ [][\A b \in Bridges :
             (audioHist[b].burst > 0 /\ audioHist'[b].burst = 0) => apc[b] \in AudioWaits]_vars
\* Ten frames have been sent in one iteration and the loop has yielded with
\* frames still buffered.
C31_Witness ==
    \E b \in Bridges :
        /\ audioHist[b].burst = 10 /\ apc[b] = "sleep"
        /\ audioBuf[b] # <<>>

\* C32: no poll is in progress on the executor thread for a Session Handle
\* that has been destroyed.
C32_NoPollOnDestroyedHandle ==
    \A b \in Bridges : handle[b] = "destroyed" => worker[b] # "polling"

\* C33: a connection never has two sessions alive at once: no two bridges
\* hold an unreleased Session Handle or a frame or audio loop that has not
\* ended.
SessionAlive(b) ==
    \/ handle[b] \in {"created", "connected"}
    \/ ~FrameTaskEnded(b)
    \/ ~AudioTaskEnded(b)
C33_OneLiveSession ==
    \A b1, b2 \in Bridges : (SessionAlive(b1) /\ SessionAlive(b2)) => b1 = b2

\* C34: on the transport, no audio message of a session follows the
\* disconnect notification that its frame loop sent after a poll error.
C34_NoAudioAfterNotification ==
    \A i, j \in DOMAIN sent :
        (/\ i < j
         /\ sent[i].ch = "json" /\ sent[i].m.magic = "disconnected"
         /\ sent[i].b \in Bridges /\ pollFailed[sent[i].b])
        => ~(sent[j].ch = "audio" /\ sent[j].b = sent[i].b)

\* C35: in a session that keeps running with polls and sends that succeed,
\* the k-th event queued in the Session Handle is eventually the k-th event
\* taken, and if it has a message that message has then been sent; this holds
\* for events queued behind an EndFrame event as well.
Queued(b, k) == Len(drained[b]) + Len(queue[b]) >= k
Delivered(b, k) ==
    /\ Len(drained[b]) >= k
    /\ _build_gfx_event_message(drained[b][k]).res = "msg" =>
           \E i \in DOMAIN sent :
               sent[i] = GfxEntry(b, k, _build_gfx_event_message(drained[b][k]).msg)
C35_EveryEventDelivered ==
    \A b \in Bridges : \A k \in 1..(MaxQueue + 1) : Queued(b, k) ~> Delivered(b, k)
\* An event that was queued behind an EndFrame event has been taken and its
\* message sent.
C35_Witness ==
    \E b \in Bridges : \E k \in 2..(MaxQueue + 1) :
        /\ Len(drained[b]) >= k
        /\ drained[b][k - 1].type = RDP_GFX_EVENT_END_FRAME
        /\ _build_gfx_event_message(drained[b][k]).res = "msg"
        /\ Delivered(b, k)

\* C36: once a Session Handle has been destroyed no native call is made on it
\* again: every call of connect, disconnect, resize and the input methods is
\* made on a handle that is alive, rdp_destroy is called at most once per
\* handle, _session is set only while the handle is alive (the test
\* send_frame_ack and the other methods rely on), and the two loops make
\* their native calls on a handle that is alive.
Alive(h) == h \in {"created", "connected"}
DestroyCalls(b) == { i \in DOMAIN nativeCalls : nativeCalls[i].b = b /\ nativeCalls[i].fn = "rdp_destroy" }
LoopNativeCall(b) ==
    \/ FrameLoopTop(b) /\ running[b]
    \/ FramePollOk(b)
    \/ FramePollError(b)
    \/ FrameDrainEvent(b)
    \/ FrameDrainEnd(b)
    \/ AudioLoopTop(b) /\ running[b]
    \/ AudioBatchFrame(b)
    \/ AudioBatchEnd(b)
C36_NoCallAfterDestroy ==
    /\ [](\A i \in DOMAIN nativeCalls : Alive(nativeCalls[i].on))
    /\ [](\A b \in Bridges : Cardinality(DestroyCalls(b)) <= 1)
    /\ [](\A b \in Bridges : session[b] => Alive(handle[b]))
    /\ [][\A b \in Bridges : LoopNativeCall(b) => Alive(handle[b])]_vars
\* A session was destroyed by the 'disconnect' message after an input event
\* and a resize had reached it, and disconnect() has run a second time from
\* the finally block.
C36_Witness ==
    /\ hpc = "done"
    /\ hctx = "finally"
    /\ \E b \in Bridges :
          /\ handle[b] = "destroyed"
          /\ \E i, j, k \in DOMAIN nativeCalls :
                /\ nativeCalls[i].b = b /\ nativeCalls[i].fn = "rdp_send_mouse"
                /\ nativeCalls[j].b = b /\ nativeCalls[j].fn = "rdp_resize"
                /\ nativeCalls[k].b = b /\ nativeCalls[k].fn = "rdp_destroy"
          /\ \E n \in DOMAIN sent : sent[n].m.magic = "disconnected" /\ sent[n].b = 0

\* C37: a resize that returns False (no active session, or rdp_resize
\* reported an error) leaves the recorded width and height as they were.
ResizeStep == Len(resizes') = Len(resizes) + 1
C37_FailedResizeKeepsConfig ==
    [][(ResizeStep /\ ~resizes'[Len(resizes')].returned) => config' = config]_vars

\* C38: every validate call on a policy the constructor accepted returns a
\* ValidationResult; none raises.
C38_ValidateTotal == \A i \in DOMAIN verdicts : verdicts[i].result.res = "ok"

\* C39: a policy whose only rules are destination expressions none of which
\* compiles has rules, and validate denies every destination under it.
OnlyUnusableRules(p) ==
    /\ p.allowedHostnames = <<>>
    /\ p.allowedIpv4Cidrs = <<>>
    /\ p.allowedDestinationRegex # <<>>
    /\ \A k \in DOMAIN p.allowedDestinationRegex : ~PatternCompiles(p.allowedDestinationRegex[k])
C39_FailsClosed ==
    \A i \in DOMAIN verdicts :
        OnlyUnusableRules(verdicts[i].policy) =>
            /\ has_rules(verdicts[i].policy)
            /\ verdicts[i].result.res = "ok"
            /\ ~verdicts[i].result.allowed
\* validate has been called on such a policy and has denied the destination.
C39_Witness ==
    \E i \in DOMAIN verdicts :
        /\ OnlyUnusableRules(verdicts[i].policy)
        /\ verdicts[i].result = Denied(Destination(verdicts[i].host, verdicts[i].port))

\* C40: loading the policy raises for no file, and a file that is missing,
\* is not valid JSON or cannot be read gives the empty policy, under which
\* every destination is allowed.
Unusable(file) == file.kind \in {"missing", "invalid", "unreadable"}
C40_LoadNeverFails ==
    /\ load_security_policy_from_file(policyFile).res = "ok"
    /\ global_security_policy.loaded =>
          global_security_policy.policy = load_security_policy_from_file(policyFile).policy
    /\ Unusable(policyFile) =>
          /\ load_security_policy_from_file(policyFile).policy = EmptyPolicy
          /\ \A i \in DOMAIN verdicts :
                verdicts[i].policy = EmptyPolicy /\ verdicts[i].result = Allowed
\* The policy was loaded from an unusable file and a destination was validated.
C40_Witness ==
    /\ Unusable(policyFile)
    /\ global_security_policy = LoadedPolicy(EmptyPolicy)
    /\ \E i \in DOMAIN verdicts : verdicts[i].result = Allowed

====
